---- MODULE Spec2Model ----
(***************************************************************************)
(* Cloud-Quarkus-Benchmarker.                                              *)
(*                                                                         *)
(* Spec       : Benchmarker.start_run for one benchmark target (one pass   *)
(*              of the innermost "for memory in memory_sizes" body): the   *)
(*              cold-start loop, the provider's enrich_metrics and the     *)
(*              write of the result file.                                  *)
(* SpecDeploy : the build gate of AWS/Azure/GCP.deploy over a build cache. *)
(***************************************************************************)
EXTENDS Integers, Sequences, FiniteSets, TLC

\* ------------------------------------------------------------------ bounds
MaxReps == 3        \* --repetitions is drawn from 0..MaxReps
MaxDiscards == 2    \* non-cold responses the provider gives in one run
MaxLog == 2         \* entries one log fetch returns
MaxFetches == 11    \* log fetches of one reconciliation that are counted (the count saturates)
MaxSteps == 3       \* deploys and edits followed in SpecDeploy
MaxSaves == 2       \* result files written in SpecSave
MaxStart == 3       \* the clock at the call of invoke_function is drawn from 0..MaxStart
MaxHalfSeconds == 5 \* the clock is read at instants up to MaxHalfSeconds half seconds
MaxCalls == 2       \* invocations of one target between __begin and the hand-over
MaxTick == 260      \* the clock after the request is drawn from 0..MaxTick
TicksPerMicro == 2  \* clock ticks in one microsecond

\* ------------------------------------------------------- program constants
max_retries == 10           \* azure.py: max_retries = 10
ColdBackoff == 5            \* benchmarker.py: time.sleep(5)
Million == 1000000          \* benchmarker.py: 1_000_000
MantissaBits == 53          \* Python float: IEEE 754 binary64

\* ------------------------------------------------------------ value spaces
Providers == {"aws", "azure", "gcp", "knative"}
LoadProfiles == {"COLD", "WARM", "BURST"}
RequestIds == {"a", "b", "c"}
NoneId == "None"                       \* headers.get(...) of a missing header
IdValues == RequestIds \cup {NoneId}
Durations == {1, 2}                    \* provider-reported durations
NoTrace == "NoTrace"                   \* a GCP entry without "trace"
Absent == <<>>                         \* Python None in provider_time
Some(v) == <<v>>

\* response.data after json.loads: a JSON object (json = TRUE) that carries
\* is_cold true, is_cold false or no is_cold key; or the raw text that the
\* JSONDecodeError branch keeps (json = FALSE).
Bodies ==
    {[json |-> TRUE, is_cold |-> c] : c \in {"true", "false", "absent"}}
        \cup {[json |-> FALSE, is_cold |-> "absent"]}

NoResult == [request_id |-> NoneId, response_body |-> [json |-> FALSE, is_cold |-> "absent"],
             valid |-> FALSE]

VARIABLES
    provider,               \* prov of the target
    load_profile,           \* --load-profile
    repetitions,            \* --repetitions
    memory,                 \* memory variant of the target (0: None)
    pc,                     \* position in start_run
    cold_start_counter,     \* start_run local
    benchmark_results,      \* start_run local: request id -> record
    result,                 \* start_run local: last invoke_function result
    retries,                \* Azure.enrich_metrics local
    invocations_processed,  \* Azure.enrich_metrics local
    results_processed,      \* AWS.enrich_metrics local
    unmatched,              \* ids the reconciler computed as still missing
    logging,                \* messages enrich_metrics emitted at warning or error level
    result_file,            \* content of the target's result file
    \* history variables (not program state); the first four are scoped to
    \* the cold-start loop and cleared when start_run hands the records over
    invocations,            \* invoke_function calls made
    non_cold,               \* JSON responses received that did not report a cold start
    enforcements,           \* enforce_cold_start calls made
    slept,                  \* seconds slept in the cold-start backoff
    memory_sets,            \* _set_memory_for_function calls made
    fetches,                \* log fetches made by enrich_metrics
    seen_ids,               \* ids of the record set for which some fetch held an entry
    complete_fetch,         \* some fetch held exactly one entry per record
    handed,                 \* record set as handed to the reconciler
    \* deploy
    src_tree,               \* content of benchmarks/<name>/src
    target_dir,             \* content of benchmarks/<name>/target (Absent: no directory)
    cache,                  \* build cache: key -> entry
    history,                \* last deploy events
    \* result store
    store,                  \* benchmark_results/: path -> content of the file
    saves,                  \* history: the writes made, in order
    \* invoke_function's clock readings
    clock,                  \* the system clock (time.time()), in ticks
    start_time,             \* invoke_function local, microseconds
    end_time,               \* invoke_function local, microseconds
    client_side_response_time,  \* invoke_function local, a float
    stepped_back,           \* history: the clock was set back during the request
    \* the function's configuration at the provider and enforce_cold_start
    target_runtime,                \* runtime of the target: jvm or native
    cold_start_var,         \* the function's cold_start_var (Absent: not set)
    fn_state,               \* Warm, Mutating, Propagated or Failed
    new_value,              \* enforce_cold_start local: the value to write
    enforce_failed,         \* history: the last enforce_cold_start call failed
    successes,              \* history: enforce_cold_start calls that succeeded
    applied,                \* history: configuration updates the provider accepted
    initial_value,          \* history: the counter before the first call
    before_call,            \* history: the counter when the current call began
    \* one merge of a fetch into a record set
    requests_in,            \* the record set passed to the merge
    fetch_in,               \* the entries the fetch returned, in order
    merge_out,              \* what the merge left: the record set, and whether it raised
    \* invoke_function's request id
    generated_id,           \* str(uuid.uuid4()) of the knative branch (NoneId: none)
    sent_trace_id,          \* the x-client-trace-id request header (Absent: not sent)
    \* the window start_run passes to the reconciler
    begin_time,             \* start_run local __begin, in ticks
    window,                 \* the start_time and end_time passed, in ticks
    earliest,               \* history: the earliest instant an invocation read the clock
    latest,                 \* history: the latest instant an invocation read the clock
    calls                   \* history: invocations made for the target

runVars == <<provider, load_profile, repetitions, memory, pc, cold_start_counter,
             benchmark_results, result, retries, invocations_processed,
             results_processed, unmatched, logging, result_file, invocations,
             non_cold, enforcements, slept, memory_sets, fetches, seen_ids,
             complete_fetch, handed>>
deployVars == <<src_tree, target_dir, cache, history>>
saveVars == <<store, saves>>
clockVars == <<clock, start_time, end_time, client_side_response_time, stepped_back>>
coldVars == <<target_runtime, cold_start_var, fn_state, new_value, enforce_failed, successes,
              applied, initial_value, before_call>>
mergeVars == <<requests_in, fetch_in, merge_out>>
traceVars == <<generated_id, sent_trace_id>>
windowVars == <<begin_time, window, earliest, latest, calls>>
auxVars == <<mergeVars, traceVars, windowVars>>
extVars == <<saveVars, clockVars, coldVars, auxVars>>
vars == <<runVars, deployVars, extVars>>

EmptyMap == [k \in {} |-> Absent]

\* --------------------------------------------------------------- helpers
\* FunctionInvocationResult.__init__ followed by json.loads(toJSON()).
FunctionInvocationResult(request_id, response_body) ==
    [request_id |-> request_id, provider_time |-> Absent, response_body |-> response_body]

\* dict.setdefault(key, value) on benchmark_results.
SetDefault(d, key, value) ==
    IF key \in DOMAIN d THEN d ELSE d @@ (key :> value)

\* bool(result.response_body.get('is_cold')) on a JSON object.
IsCold(body) == body.is_cold = "true"

\* float(ms) / 1000: seconds, kept here as a whole number of microseconds.
MsToSeconds(ms) == ms * 1000

Keys(requests) == DOMAIN requests

Min(x, y) == IF x < y THEN x ELSE y
Max(x, y) == IF x > y THEN x ELSE y

\* Sequences of at most MaxLog elements of S: what one log fetch can return.
SeqsUpTo(S) == UNION {[1..n -> S] : n \in 0..MaxLog}

Msg(level, text, ids, count) ==
    [level |-> level, text |-> text, ids |-> ids, count |-> count]

\* ---------------------------------------------------------- log entries
\* AWS: one "@message" REPORT line of a query result, as parse_aws_report
\* reads it: "REPORT RequestId: <id>\tDuration: <ms> ms\t...".
\* Azure: one row of the App Insights table; request[-2] is the invocation
\* id, request[-1] the FunctionExecutionTimeMs.
LogEntries == [id : RequestIds, duration : Durations]

\* GCP: one entry of list_entries. Only a plain LogEntry is a request log;
\* it may carry a trace and an httpRequest.latency.
GcpEntries ==
    {e \in [type : {"LogEntry", "TextEntry"}, trace : RequestIds \cup {NoTrace},
            http : BOOLEAN, latency : Durations] :
        /\ (e.type = "TextEntry" => ~e.http)
        /\ (~e.http => e.latency = 1)}

\* The ids for which a fetch holds a request log entry.
EntryIds(logs) == {logs[i].id : i \in DOMAIN logs}
GcpIsRequestLog(e) == e.type = "LogEntry" /\ e.trace # NoTrace /\ e.http
GcpEntryIds(logs) == {logs[i].trace : i \in {j \in DOMAIN logs : GcpIsRequestLog(logs[j])}}

\* ------------------------------------------------- Benchmarker.start_run
\* while cold_start_counter < repetitions (line 259), else fall through to
\* the reconciliation at line 289.
LoopNext(counter) == IF counter < repetitions THEN "enforce" ELSE "reconcile"

\* Lines 240-258: per-target set-up, memory configuration, loop entry.
BeginTarget ==
    /\ pc = "begin"
    /\ benchmark_results' = EmptyMap
    /\ memory_sets' = IF memory # 0 THEN memory_sets + 1 ELSE memory_sets
    /\ cold_start_counter' = 0
    /\ pc' = IF load_profile = "COLD" THEN LoopNext(0) ELSE "reconcile"
    /\ UNCHANGED <<provider, load_profile, repetitions, memory, result, retries,
                   invocations_processed, results_processed, unmatched, logging,
                   result_file, invocations, non_cold, enforcements, slept, fetches,
                   seen_ids, complete_fetch, handed, deployVars, extVars>>

\* Variant of the loop body that configures the memory before every
\* enforcement.
EnforceColdStart_SetsMemory ==
    /\ pc = "enforce"
    /\ enforcements' = enforcements + 1
    /\ memory_sets' = IF memory # 0 THEN memory_sets + 1 ELSE memory_sets
    /\ pc' = "invoke"
    /\ UNCHANGED <<provider, load_profile, repetitions, memory, cold_start_counter,
                   benchmark_results, result, retries, invocations_processed,
                   results_processed, unmatched, logging, result_file, invocations,
                   non_cold, slept, fetches, seen_ids, complete_fetch,
                   handed, deployVars, extVars>>

\* Lines 261-262: self.enforce_cold_start(...).
EnforceColdStart ==
    /\ pc = "enforce"
    /\ enforcements' = enforcements + 1
    /\ pc' = "invoke"
    /\ UNCHANGED <<provider, load_profile, repetitions, memory, cold_start_counter,
                   benchmark_results, result, retries, invocations_processed,
                   results_processed, unmatched, logging, result_file, invocations,
                   non_cold, slept, memory_sets, fetches, seen_ids, complete_fetch,
                   handed, deployVars, extVars>>

\* _get_request_id: the provider's response header; NoneId when it is missing.
\* GCP splits the header value, which raises on a missing header.
GetRequestIdRaises(prov, header) == prov = "gcp" /\ header = NoneId

\* Variant of invoke_function in which a failed request returns to start_run,
\* which goes on to the reconciliation with the records it has.
InvokeFunction_SalvagesOnFailure ==
    /\ pc = "invoke"
    /\ \E failed \in BOOLEAN, header \in IdValues, body \in Bodies :
        /\ (body.json /\ ~IsCold(body)) => non_cold < MaxDiscards
        /\ (failed => header = NoneId /\ body = NoResult.response_body)
        /\ invocations' = invocations + 1
        /\ IF failed \/ GetRequestIdRaises(provider, header)
             THEN /\ pc' = "reconcile"
                  /\ UNCHANGED <<result, non_cold>>
             ELSE /\ pc' = "check"
                  /\ result' = [request_id |-> header, response_body |-> body, valid |-> TRUE]
                  /\ non_cold' = IF body.json /\ ~IsCold(body) THEN non_cold + 1 ELSE non_cold
    /\ UNCHANGED <<provider, load_profile, repetitions, memory, cold_start_counter,
                   benchmark_results, retries, invocations_processed,
                   results_processed, unmatched, logging, result_file, enforcements, slept,
                   memory_sets, fetches, seen_ids, complete_fetch, handed, deployVars, extVars>>

\* invoke_function (lines 156-201), called at line 263.
\*   failed : a transport error, or any other exception -> exit(-1)
\*   header : the correlation id header of the response
\*   body   : the decoded response body
InvokeFunction ==
    /\ pc = "invoke"
    /\ \E failed \in BOOLEAN, header \in IdValues, body \in Bodies :
        /\ (body.json /\ ~IsCold(body)) => non_cold < MaxDiscards
        /\ (failed => header = NoneId /\ body = NoResult.response_body)
        /\ invocations' = invocations + 1
        /\ IF failed \/ GetRequestIdRaises(provider, header)
             THEN /\ pc' = "exited"
                  /\ UNCHANGED <<result, non_cold>>
             ELSE /\ pc' = "check"
                  /\ result' = [request_id |-> header, response_body |-> body, valid |-> TRUE]
                  /\ non_cold' = IF body.json /\ ~IsCold(body) THEN non_cold + 1 ELSE non_cold
    /\ UNCHANGED <<provider, load_profile, repetitions, memory, cold_start_counter,
                   benchmark_results, retries, invocations_processed,
                   results_processed, unmatched, logging, result_file, enforcements, slept,
                   memory_sets, fetches, seen_ids, complete_fetch, handed, deployVars, extVars>>

\* Variant of line 265 that compares with False, so a body without is_cold
\* passes the gate.
NotCold_OnlyFalse(res) == res.response_body.is_cold = "false"

\* Line 265: "if not result.response_body.get('is_cold')".
NotCold(res) == ~IsCold(res.response_body)

\* Lines 272-279: count the repetition and store the record.
RecordResult(results, res) ==
    SetDefault(results, res.request_id,
               FunctionInvocationResult(res.request_id, res.response_body))

\* Variant of lines 265-279 that advances the counter before the cold check.
ColdStartStep_CountsDiscard(counter, results, res) ==
    IF NotCold(res)
      THEN [counter |-> counter + 1, results |-> results, backoff |-> ColdBackoff]
      ELSE [counter |-> counter + 1, results |-> RecordResult(results, res), backoff |-> 0]

\* Lines 265-279 on a JSON object: a response that is not cold is discarded
\* (log, sleep, continue); a cold one is counted and stored.
ColdStartStep(counter, results, res) ==
    IF NotCold(res)
      THEN [counter |-> counter, results |-> results, backoff |-> ColdBackoff]
      ELSE [counter |-> counter + 1, results |-> RecordResult(results, res), backoff |-> 0]

\* Variant of lines 265-279 whose discard path goes back to the invocation
\* without a new enforcement.
CheckColdStart_RetryWithoutEnforce ==
    /\ pc = "check"
    /\ result' = NoResult
    /\ IF ~result.response_body.json
         THEN /\ pc' = "crashed"
              /\ UNCHANGED <<cold_start_counter, benchmark_results, slept>>
         ELSE LET step == ColdStartStep(cold_start_counter, benchmark_results, result)
              IN /\ cold_start_counter' = step.counter
                 /\ benchmark_results' = step.results
                 /\ slept' = slept + step.backoff
                 /\ pc' = IF NotCold(result) THEN "invoke" ELSE LoopNext(step.counter)
    /\ UNCHANGED <<provider, load_profile, repetitions, memory, retries,
                   invocations_processed, results_processed, unmatched, logging,
                   result_file, invocations, non_cold, enforcements, memory_sets,
                   fetches, seen_ids, complete_fetch, handed, deployVars, extVars>>

\* Lines 265-279: verify the cold start, discard or record. The local
\* "result" is not read again before line 263 assigns it anew.
CheckColdStart ==
    /\ pc = "check"
    /\ result' = NoResult
    /\ IF ~result.response_body.json
         THEN \* str has no .get: AttributeError ends the process
              /\ pc' = "crashed"
              /\ UNCHANGED <<cold_start_counter, benchmark_results, slept>>
         ELSE LET step == ColdStartStep(cold_start_counter, benchmark_results, result)
              IN /\ cold_start_counter' = step.counter
                 /\ benchmark_results' = step.results
                 /\ slept' = slept + step.backoff
                 /\ pc' = LoopNext(step.counter)
    /\ UNCHANGED <<provider, load_profile, repetitions, memory, retries,
                   invocations_processed, results_processed, unmatched, logging,
                   result_file, invocations, non_cold, enforcements, memory_sets,
                   fetches, seen_ids, complete_fetch, handed, deployVars, extVars>>

\* ------------------------------- the cold-start loop without its history
\* The loop of lines 259-279 as the program holds it: the loop has no
\* variable that counts attempts, enforcements or discards, so its state is
\* the counter, the record set and the local result.

\* Lines 261-262: self.enforce_cold_start(...).
LoopEnforce ==
    /\ pc = "enforce"
    /\ pc' = "invoke"
    /\ UNCHANGED <<provider, load_profile, repetitions, memory, cold_start_counter,
                   benchmark_results, result, retries, invocations_processed,
                   results_processed, unmatched, logging, result_file, invocations,
                   non_cold, enforcements, slept, memory_sets, fetches, seen_ids,
                   complete_fetch, handed, deployVars, extVars>>

\* The response to the request of line 263 is cold when invoke_function
\* returns a record whose body is a JSON object with a true is_cold.
IsColdResponse(failed, header, body) ==
    /\ ~failed
    /\ ~GetRequestIdRaises(provider, header)
    /\ body.json
    /\ IsCold(body)

\* invoke_function (lines 156-201) at line 263, answered by a cold response.
ColdResponse ==
    /\ pc = "invoke"
    /\ \E header \in IdValues, body \in Bodies :
        /\ IsColdResponse(FALSE, header, body)
        /\ result' = [request_id |-> header, response_body |-> body, valid |-> TRUE]
    /\ pc' = "check"
    /\ UNCHANGED <<provider, load_profile, repetitions, memory, cold_start_counter,
                   benchmark_results, retries, invocations_processed,
                   results_processed, unmatched, logging, result_file, invocations,
                   non_cold, enforcements, slept, memory_sets, fetches, seen_ids,
                   complete_fetch, handed, deployVars, extVars>>

\* invoke_function at line 263, answered by anything else: a failure ends
\* the process, any other response is returned to the loop.
OtherResponse ==
    /\ pc = "invoke"
    /\ \E failed \in BOOLEAN, header \in IdValues, body \in Bodies :
        /\ ~IsColdResponse(failed, header, body)
        /\ (failed => header = NoneId /\ body = NoResult.response_body)
        /\ IF failed \/ GetRequestIdRaises(provider, header)
             THEN /\ pc' = "exited"
                  /\ UNCHANGED result
             ELSE /\ pc' = "check"
                  /\ result' = [request_id |-> header, response_body |-> body, valid |-> TRUE]
    /\ UNCHANGED <<provider, load_profile, repetitions, memory, cold_start_counter,
                   benchmark_results, retries, invocations_processed,
                   results_processed, unmatched, logging, result_file, invocations,
                   non_cold, enforcements, slept, memory_sets, fetches, seen_ids,
                   complete_fetch, handed, deployVars, extVars>>

\* Variant of lines 265-279 that leaves the loop at the first discard.
LoopCheck_DiscardEndsLoop ==
    /\ pc = "check"
    /\ result' = NoResult
    /\ IF ~result.response_body.json
         THEN /\ pc' = "crashed"
              /\ UNCHANGED <<cold_start_counter, benchmark_results>>
         ELSE LET step == ColdStartStep(cold_start_counter, benchmark_results, result)
              IN /\ cold_start_counter' = step.counter
                 /\ benchmark_results' = step.results
                 /\ pc' = IF NotCold(result) THEN "reconcile" ELSE LoopNext(step.counter)
    /\ UNCHANGED <<provider, load_profile, repetitions, memory, retries,
                   invocations_processed, results_processed, unmatched, logging,
                   result_file, invocations, non_cold, enforcements, slept, memory_sets,
                   fetches, seen_ids, complete_fetch, handed, deployVars, extVars>>

\* Lines 265-279: verify the cold start, discard (log, sleep(5), continue)
\* or count and record, then the loop test of line 259.
LoopCheck ==
    /\ pc = "check"
    /\ result' = NoResult
    /\ IF ~result.response_body.json
         THEN /\ pc' = "crashed"
              /\ UNCHANGED <<cold_start_counter, benchmark_results>>
         ELSE LET step == ColdStartStep(cold_start_counter, benchmark_results, result)
              IN /\ cold_start_counter' = step.counter
                 /\ benchmark_results' = step.results
                 /\ pc' = LoopNext(step.counter)
    /\ UNCHANGED <<provider, load_profile, repetitions, memory, retries,
                   invocations_processed, results_processed, unmatched, logging,
                   result_file, invocations, non_cold, enforcements, slept, memory_sets,
                   fetches, seen_ids, complete_fetch, handed, deployVars, extVars>>

\* --------------------------------------------------- enrich_metrics
\* Lines 289-297 and __get_provider_time_and_update_results (75-88): hand the
\* record set to the provider's enrich_metrics. Knative returns it as it is.
GetProviderTimeAndUpdateResults ==
    /\ pc = "reconcile"
    /\ handed' = Some(benchmark_results)
    /\ pc' = CASE provider = "gcp" -> "gcp_enrich"
               [] provider = "aws" -> "aws_enrich"
               [] provider = "azure" -> "azure_enrich"
               [] OTHER -> "save"
    /\ retries' = 0
    /\ invocations_processed' = {}
    /\ results_processed' = 0
    /\ unmatched' = Keys(benchmark_results)
    /\ invocations' = 0
    /\ non_cold' = 0
    /\ enforcements' = 0
    /\ slept' = 0
    /\ UNCHANGED <<provider, load_profile, repetitions, memory, cold_start_counter,
                   benchmark_results, result, logging, result_file, memory_sets,
                   fetches, seen_ids, complete_fetch, deployVars, extVars>>

\* Variant of lines 251-257 that merges the time but leaves out
\* invocations_processed.add(invocation_id).
RECURSIVE AzureRows_NoAdd(_, _, _)
AzureRows_NoAdd(requests, processed, rows) ==
    IF rows = <<>> THEN [requests |-> requests, processed |-> processed]
    ELSE LET request == Head(rows) IN
         IF request.id \notin Keys(requests)
           THEN AzureRows_NoAdd(requests, processed, Tail(rows))
           ELSE AzureRows_NoAdd(
                  [requests EXCEPT
                     ![request.id].provider_time = Some(MsToSeconds(request.duration))],
                  processed, Tail(rows))

\* Variant of lines 251-257 that stores a fresh record with the time instead
\* of setting the time on the stored one.
RECURSIVE AzureRows_FreshRecord(_, _, _)
AzureRows_FreshRecord(requests, processed, rows) ==
    IF rows = <<>> THEN [requests |-> requests, processed |-> processed]
    ELSE LET request == Head(rows) IN
         IF request.id \notin Keys(requests)
           THEN AzureRows_FreshRecord(requests, processed, Tail(rows))
           ELSE AzureRows_FreshRecord(
                  [requests EXCEPT
                     ![request.id] =
                        [FunctionInvocationResult(request.id, NoResult.response_body)
                           EXCEPT !.provider_time = Some(MsToSeconds(request.duration))]],
                  processed \cup {request.id}, Tail(rows))

\* Azure.enrich_metrics, lines 251-257: merge the rows of one query.
RECURSIVE AzureRows(_, _, _)
AzureRows(requests, processed, rows) ==
    IF rows = <<>> THEN [requests |-> requests, processed |-> processed]
    ELSE LET request == Head(rows) IN
         IF request.id \notin Keys(requests)
           THEN AzureRows(requests, processed, Tail(rows))
           ELSE AzureRows(
                  [requests EXCEPT
                     ![request.id].provider_time = Some(MsToSeconds(request.duration))],
                  processed \cup {request.id}, Tail(rows))

\* Variant of line 240 without the retry budget.
AzureContinue_NoBudget(n_retries, processed, requests) ==
    Cardinality(processed) < Cardinality(Keys(requests))

\* Azure.enrich_metrics, line 240: the loop condition.
AzureContinue(n_retries, processed, requests) ==
    n_retries < max_retries /\ Cardinality(processed) < Cardinality(Keys(requests))

\* Azure.enrich_metrics, lines 240-265: one pass of the query loop.
AzureQuery ==
    /\ pc = "azure_enrich"
    /\ AzureContinue(retries, invocations_processed, benchmark_results)
    /\ \E rows \in SeqsUpTo(LogEntries) :
        LET m == AzureRows(benchmark_results, invocations_processed, rows)
            total == Cardinality(Keys(benchmark_results))
            missing == Cardinality(m.processed) < total
        IN /\ benchmark_results' = m.requests
           /\ invocations_processed' = m.processed
           /\ unmatched' = Keys(benchmark_results) \ m.processed
           /\ retries' = IF missing THEN retries + 1 ELSE retries
           /\ fetches' = Min(fetches + 1, MaxFetches)
           /\ seen_ids' = seen_ids \cup (EntryIds(rows) \cap Keys(benchmark_results))
           /\ complete_fetch' = (complete_fetch \/
                                   (Len(rows) = total /\ EntryIds(rows) = Keys(benchmark_results)))
    /\ UNCHANGED <<provider, load_profile, repetitions, memory, pc, cold_start_counter,
                   result, results_processed, logging, result_file, invocations,
                   non_cold, enforcements, slept, memory_sets, handed, deployVars, extVars>>

\* Azure.enrich_metrics, lines 267-272: leave the loop, warn, return.
AzureReturn ==
    /\ pc = "azure_enrich"
    /\ ~AzureContinue(retries, invocations_processed, benchmark_results)
    /\ logging' =
         IF Cardinality(invocations_processed) < Cardinality(Keys(benchmark_results))
           THEN logging \cup
                  {Msg("warning", "failed_to_find_metrics", Absent,
                       Some(Cardinality(Keys(benchmark_results) \ invocations_processed)))}
           ELSE logging
    /\ pc' = "save"
    /\ UNCHANGED <<provider, load_profile, repetitions, memory, cold_start_counter,
                   benchmark_results, result, retries, invocations_processed,
                   results_processed, unmatched, result_file, invocations, non_cold,
                   enforcements, slept, memory_sets, fetches, seen_ids, complete_fetch,
                   handed, deployVars, extVars>>

\* AWS.process_query_results (305-317) with parse_aws_report (319-337) inlined.
\* requests is always a dict, so parse_aws_report writes
\* output[request_id]["provider_time"] with output = requests: a KeyError for
\* an id that is no key. requests_ids.remove raises KeyError on an id that was
\* already removed.
RECURSIVE ProcessQueryResults(_, _, _, _)
ProcessQueryResults(results, requests, results_processed_, requests_ids) ==
    IF results = <<>>
      THEN [requests |-> requests, results_processed |-> results_processed_,
            requests_ids |-> requests_ids, raised |-> FALSE]
    ELSE LET val == Head(results) IN
         IF val.id \notin Keys(requests)
           THEN [requests |-> requests, results_processed |-> results_processed_,
                 requests_ids |-> requests_ids, raised |-> TRUE]
         ELSE LET merged == [requests EXCEPT
                               ![val.id].provider_time = Some(MsToSeconds(val.duration))]
              IN IF val.id \notin requests_ids
                   THEN [requests |-> merged, results_processed |-> results_processed_ + 1,
                         requests_ids |-> requests_ids, raised |-> TRUE]
                   ELSE ProcessQueryResults(Tail(results), merged, results_processed_ + 1,
                                            requests_ids \ {val.id})

\* Variant of the loop condition that is satisfied by one matched record.
AwsContinue_AnyMatch(processed_count, requests) ==
    processed_count < Min(1, Cardinality(Keys(requests)))

\* AWS.enrich_metrics, line 346 and 354: the loop condition.
AwsContinue(processed_count, requests) == processed_count < Cardinality(Keys(requests))

\* AWS.enrich_metrics, lines 346-356: one pass of the query loop.
AwsQuery ==
    /\ pc = "aws_enrich"
    /\ AwsContinue(results_processed, benchmark_results)
    /\ \E results \in SeqsUpTo(LogEntries) :
        LET p == ProcessQueryResults(results, benchmark_results, 0,
                                     Keys(benchmark_results))
        IN /\ benchmark_results' = p.requests
           /\ fetches' = Min(fetches + 1, MaxFetches)
           /\ seen_ids' = seen_ids \cup (EntryIds(results) \cap Keys(benchmark_results))
           /\ complete_fetch' = (complete_fetch \/
                                   (/\ Len(results) = Cardinality(Keys(benchmark_results))
                                    /\ EntryIds(results) = Keys(benchmark_results)))
           /\ IF p.raised
                THEN /\ pc' = "crashed"
                     /\ UNCHANGED <<results_processed, unmatched>>
                ELSE /\ pc' = pc
                     /\ results_processed' = p.results_processed
                     /\ unmatched' = p.requests_ids
    /\ UNCHANGED <<provider, load_profile, repetitions, memory, cold_start_counter,
                   result, retries, invocations_processed, logging, result_file,
                   invocations, non_cold, enforcements, slept, memory_sets, handed,
                   deployVars, extVars>>

\* AWS.enrich_metrics, line 358: return requests.
AwsReturn ==
    /\ pc = "aws_enrich"
    /\ ~AwsContinue(results_processed, benchmark_results)
    /\ pc' = "save"
    /\ UNCHANGED <<provider, load_profile, repetitions, memory, cold_start_counter,
                   benchmark_results, result, retries, invocations_processed,
                   results_processed, unmatched, logging, result_file, invocations,
                   non_cold, enforcements, slept, memory_sets, fetches, seen_ids,
                   complete_fetch, handed, deployVars, extVars>>

\* float(latency.rstrip('s')): seconds, kept as microseconds; the entry's
\* latency is modelled in milliseconds ("0.001s").
LatencyToSeconds(latency) == latency * 1000

\* Variant of lines 229-241 that leaves the loop after the first merged entry.
RECURSIVE GcpMerge_FirstMatchOnly(_, _, _, _)
GcpMerge_FirstMatchOnly(logs, requests, processed, ids_to_find) ==
    IF logs = <<>>
      THEN [requests |-> requests, processed |-> processed, raised |-> FALSE]
    ELSE LET entry == Head(logs) IN
         IF entry.type # "LogEntry" \/ entry.trace = NoTrace
           THEN GcpMerge_FirstMatchOnly(Tail(logs), requests, processed, ids_to_find)
         ELSE IF ~entry.http
           THEN [requests |-> requests, processed |-> processed, raised |-> TRUE]
         ELSE IF entry.trace \in ids_to_find
           THEN [requests |->
                   [requests EXCEPT
                      ![entry.trace].provider_time = Some(LatencyToSeconds(entry.latency))],
                 processed |-> processed \cup {entry.trace}, raised |-> FALSE]
           ELSE GcpMerge_FirstMatchOnly(Tail(logs), requests, processed, ids_to_find)

\* GCP.enrich_metrics, lines 229-241: merge the entries of the fetch.
\* log_as_json['httpRequest'] raises KeyError on an entry with a trace and no
\* httpRequest.
RECURSIVE GcpMerge(_, _, _, _)
GcpMerge(logs, requests, processed, ids_to_find) ==
    IF logs = <<>>
      THEN [requests |-> requests, processed |-> processed, raised |-> FALSE]
    ELSE LET entry == Head(logs) IN
         IF entry.type # "LogEntry" \/ entry.trace = NoTrace
           THEN GcpMerge(Tail(logs), requests, processed, ids_to_find)
         ELSE IF ~entry.http
           THEN [requests |-> requests, processed |-> processed, raised |-> TRUE]
         ELSE IF entry.trace \in ids_to_find
           THEN GcpMerge(Tail(logs),
                         [requests EXCEPT
                            ![entry.trace].provider_time = Some(LatencyToSeconds(entry.latency))],
                         processed \cup {entry.trace}, ids_to_find)
           ELSE GcpMerge(Tail(logs), requests, processed, ids_to_find)

\* GCP.enrich_metrics, lines 192-249: one fetch after the settle delay.
\*   fetch_failed : list_entries raised, get_logs returned None
GcpEnrich ==
    /\ pc = "gcp_enrich"
    /\ \E fetch_failed \in BOOLEAN, logs \in SeqsUpTo(GcpEntries) :
        /\ fetch_failed => logs = <<>>
        /\ fetches' = Min(fetches + 1, MaxFetches)
        /\ seen_ids' = seen_ids \cup (GcpEntryIds(logs) \cap Keys(benchmark_results))
        /\ complete_fetch' =
             (/\ Len(logs) = Cardinality(Keys(benchmark_results))
              /\ \A i \in DOMAIN logs : GcpIsRequestLog(logs[i])
              /\ GcpEntryIds(logs) = Keys(benchmark_results))
        /\ IF fetch_failed \/ Len(logs) = 0
             THEN /\ logging' = logging \cup
                       (IF fetch_failed
                          THEN {Msg("error", "error_fetching_logs", Absent, Absent)}
                          ELSE {})
                       \cup {Msg("error", "no_logs_found", Absent, Absent)}
                  /\ pc' = "save"
                  /\ UNCHANGED <<benchmark_results, unmatched>>
             ELSE LET m == GcpMerge(logs, benchmark_results, {}, Keys(benchmark_results))
                  IN IF m.raised
                       THEN /\ pc' = "crashed"
                            /\ benchmark_results' = m.requests
                            /\ UNCHANGED <<unmatched, logging>>
                       ELSE /\ pc' = "save"
                            /\ benchmark_results' = m.requests
                            /\ unmatched' = Keys(benchmark_results) \ m.processed
                            /\ UNCHANGED logging
    /\ UNCHANGED <<provider, load_profile, repetitions, memory, cold_start_counter,
                   result, retries, invocations_processed, results_processed,
                   result_file, invocations, non_cold, enforcements, slept, memory_sets,
                   handed, deployVars, extVars>>

\* Lines 299-302: json.dump(benchmark_results, f) into the target's file.
SaveResults ==
    /\ pc = "save"
    /\ result_file' = Some(benchmark_results)
    /\ pc' = "done"
    /\ UNCHANGED <<provider, load_profile, repetitions, memory, cold_start_counter,
                   benchmark_results, result, retries, invocations_processed,
                   results_processed, unmatched, logging, invocations, non_cold,
                   enforcements, slept, memory_sets, fetches, seen_ids, complete_fetch,
                   handed, deployVars, extVars>>

\* ------------------------------------------------------------ deploy
\* One benchmark; its src and target directories are shared by the three
\* providers and by the jvm and native variants.
DeployProviders == {"aws", "azure", "gcp"}
CacheKeys == DeployProviders \X BOOLEAN
SrcVersions == {0, 1}                 \* contents of the source tree
NoEntry == <<>>                       \* find_cache found nothing
None == <<>>                          \* Python None as a hash value

\* utils.compute_directory_hash: a content hash, one value per content.
ComputeDirectoryHash(content) == <<"sha", content>>

\* utils.find_cache(provider, benchmark_name, native).
FindCache(c, prov, native) == c[<<prov, native>>]

\* utils.update_cache(provider, benchmark_name, native, src_hash, target_hash).
UpdateCache(c, prov, native, entry) == [c EXCEPT ![<<prov, native>>] = entry]

\* utils.execute of the build command: a failing command ends the process.
BuildOutcomes == {"built", "failed"}

\* AWS.build / Azure.build / GCP.build: "mvnw clean package -P <profile>".
AwsProfile(native) == IF native THEN "aws-native" ELSE "aws"
AzureProfile(native) == IF native THEN "azure-native" ELSE "azure"
GcpProfile(native) == IF native THEN "gcp-native" ELSE "gcp"
Profile(prov, native) ==
    CASE prov = "aws" -> AwsProfile(native)
      [] prov = "azure" -> AzureProfile(native)
      [] OTHER -> GcpProfile(native)

\* What the build leaves in target/: the package of this source for this profile.
BuildOutput(src, profile) == [src |-> src, profile |-> profile]

\* deploy: target_hash = compute_directory_hash(target) if it exists else None.
TargetHash(dir) == IF dir = Absent THEN None ELSE ComputeDirectoryHash(dir)

\* Variant of the build gate that leaves out the target_hash comparison.
AwsShouldBuild_IgnoresTarget(entry, src_hash, target_hash) ==
    entry = NoEntry \/ entry.src_hash # src_hash

\* deploy: "if not cache or cache['src_hash'] != src_hash or
\*          cache['target_hash'] != target_hash".
AwsShouldBuild(entry, src_hash, target_hash) ==
    entry = NoEntry \/ entry.src_hash # src_hash \/ entry.target_hash # target_hash
\* Variant of the gate that is satisfied by any existing output directory.
GcpShouldBuild_AnyOutput(entry, src_hash, target_hash) ==
    entry = NoEntry \/ entry.src_hash # src_hash \/ target_hash = None
AzureShouldBuild(entry, src_hash, target_hash) ==
    entry = NoEntry \/ entry.src_hash # src_hash \/ entry.target_hash # target_hash
GcpShouldBuild(entry, src_hash, target_hash) ==
    entry = NoEntry \/ entry.src_hash # src_hash \/ entry.target_hash # target_hash
ShouldBuild(prov, entry, src_hash, target_hash) ==
    CASE prov = "aws" -> AwsShouldBuild(entry, src_hash, target_hash)
      [] prov = "azure" -> AzureShouldBuild(entry, src_hash, target_hash)
      [] OTHER -> GcpShouldBuild(entry, src_hash, target_hash)

\* Variant that stores the target_hash taken before the build (line 46 left out).
AwsEntryAfterBuild_StaleHash(src_hash, target_hash_before, target_after) ==
    [src_hash |-> src_hash, target_hash |-> target_hash_before]

\* deploy, after the build: target_hash is computed again over the new
\* output and stored with the src_hash taken before the build.
AwsEntryAfterBuild(src_hash, target_hash_before, target_after) ==
    [src_hash |-> src_hash, target_hash |-> ComputeDirectoryHash(target_after)]
AzureEntryAfterBuild(src_hash, target_hash_before, target_after) ==
    [src_hash |-> src_hash, target_hash |-> ComputeDirectoryHash(target_after)]
GcpEntryAfterBuild(src_hash, target_hash_before, target_after) ==
    [src_hash |-> src_hash, target_hash |-> ComputeDirectoryHash(target_after)]
EntryAfterBuild(prov, src_hash, target_hash_before, target_after) ==
    CASE prov = "aws" -> AwsEntryAfterBuild(src_hash, target_hash_before, target_after)
      [] prov = "azure" -> AzureEntryAfterBuild(src_hash, target_hash_before, target_after)
      [] OTHER -> GcpEntryAfterBuild(src_hash, target_hash_before, target_after)

\* Azure.deploy_function: "mvnw quarkus:deploy -P azure" runs in the benchmark
\* directory after the build gate; it may package target/ again.
AzureDeployFunction(target, src, repackaged) ==
    IF repackaged THEN BuildOutput(src, "azure-deploy") ELSE target
DeployFunction(prov, target, src, repackaged) ==
    IF prov = "azure" THEN AzureDeployFunction(target, src, repackaged) ELSE target

Event(op, key, built, ok, had_entry, src_equal, target_equal, target_existed, target_seen, target_gate) ==
    [op |-> op, key |-> key, built |-> built, ok |-> ok, had_entry |-> had_entry,
     src_equal |-> src_equal, target_equal |-> target_equal,
     target_existed |-> target_existed, target_seen |-> target_seen,
     target_gate |-> target_gate]
EnvEvent(op) ==
    Event(op, <<"none", FALSE>>, FALSE, TRUE, FALSE, FALSE, FALSE, FALSE, Absent, Absent)

\* AWS.deploy / Azure.deploy / GCP.deploy: the hashes, the cache lookup, the
\* build gate and the cache update. A failing build ends the process with
\* the cache as it was; "clean" may already have removed the output.
Deploy ==
    /\ pc = "idle"
    /\ Len(history) < MaxSteps
    /\ \E prov \in DeployProviders, native \in BOOLEAN, outcome \in BuildOutcomes,
          cleaned \in BOOLEAN, repackaged \in BOOLEAN :
        LET src_hash == ComputeDirectoryHash(src_tree)
            target_hash == TargetHash(target_dir)
            entry == FindCache(cache, prov, native)
            build == ShouldBuild(prov, entry, src_hash, target_hash)
            new_target == BuildOutput(src_tree, Profile(prov, native))
            ok == ~build \/ outcome = "built"
            target_gate == IF build /\ ok THEN new_target ELSE target_dir
            ev == Event("deploy", <<prov, native>>, build, ok,
                        entry # NoEntry,
                        entry # NoEntry /\ entry.src_hash = ComputeDirectoryHash(src_tree),
                        entry # NoEntry /\ target_dir # Absent
                            /\ entry.target_hash = ComputeDirectoryHash(target_dir),
                        target_dir # Absent,
                        target_dir, target_gate)
        IN /\ (~build => outcome = "built" /\ ~cleaned)
           /\ (outcome = "built" => ~cleaned)
           /\ (repackaged => prov = "azure" /\ ok)
           /\ history' = Append(history, ev)
           /\ IF ok
                THEN /\ target_dir' = DeployFunction(prov, target_gate, src_tree, repackaged)
                     /\ cache' = IF build
                                  THEN UpdateCache(cache, prov, native,
                                           EntryAfterBuild(prov, src_hash, target_hash, new_target))
                                  ELSE cache
                ELSE /\ target_dir' = IF cleaned THEN Absent ELSE target_dir
                     /\ UNCHANGED cache
    /\ UNCHANGED <<src_tree, runVars, extVars>>

\* The developer edits the benchmark's source between two deploys.
EditSource ==
    /\ pc = "idle"
    /\ Len(history) < MaxSteps
    /\ \E v \in SrcVersions \ {src_tree} : src_tree' = v
    /\ history' = Append(history, EnvEvent("edit_src"))
    /\ UNCHANGED <<target_dir, cache, runVars, extVars>>

\* The build output is deleted between two deploys.
DeleteTarget ==
    /\ pc = "idle"
    /\ Len(history) < MaxSteps
    /\ target_dir # Absent
    /\ target_dir' = Absent
    /\ history' = Append(history, EnvEvent("delete_target"))
    /\ UNCHANGED <<src_tree, cache, runVars, extVars>>

\* The build output is modified between two deploys.
TamperTarget ==
    /\ pc = "idle"
    /\ Len(history) < MaxSteps
    /\ target_dir # Absent
    /\ target_dir.profile # "tampered"
    /\ target_dir' = [target_dir EXCEPT !.profile = "tampered"]
    /\ history' = Append(history, EnvEvent("tamper_target"))
    /\ UNCHANGED <<src_tree, cache, runVars, extVars>>

DeployIdle ==
    /\ src_tree = 0
    /\ target_dir = Absent
    /\ cache = [k \in CacheKeys |-> NoEntry]
    /\ history = <<>>

\* ------------------------------------------------------------ result store
\* Lines 289-302 of start_run over several targets and runs: the directory
\* benchmark_results/<prov>/<runtime>/<bench_name> and the file
\* "<load_profile.name>_<repetitions>_<memory or 'default'>.json".
Runtimes == {"jvm", "native"}
MemoryVariants == {0, 128}            \* 0: None (azure has no memory variants)
MemoryLabel(mem) == IF mem # 0 THEN ToString(mem) ELSE "default"
ResultsDir(prov, runtime, bench_name) == <<"benchmark_results", prov, runtime, bench_name>>
FileName(lp, reps, mem) == <<lp, ToString(reps), MemoryLabel(mem), "json">>
ResultPath(prov, runtime, bench_name, lp, reps, mem) ==
    ResultsDir(prov, runtime, bench_name) \o FileName(lp, reps, mem)

\* The record sets a run hands to the write: ids a, b; provider_time merged or not.
RecordSets ==
    UNION {
      {f \in [S -> [request_id : S, provider_time : {Absent, Some(MsToSeconds(1))},
                    response_body : {[json |-> TRUE, is_cold |-> "true"]}]] :
          \A id \in S : f[id].request_id = id}
      : S \in SUBSET {"a", "b"} }

ReadFile(st, path) == IF path \in DOMAIN st THEN Some(st[path]) ELSE Absent

\* Variant of the write that adds the records to those already in the file.
JsonDumpW_Merge(prior, records) ==
    IF prior = Absent THEN records ELSE records @@ prior[1]

\* open(path, 'w') truncates; json.dump(benchmark_results, f) writes the dict.
JsonDumpW(prior, records) == records

\* Lines 289-302 for one target of one run: the write of its result file.
SaveTarget ==
    /\ pc = "idle"
    /\ Len(saves) < MaxSaves
    /\ \E prov \in {"aws", "azure"}, lp \in {"COLD", "WARM"}, mem \in MemoryVariants,
          records \in RecordSets :
        LET path == ResultPath(prov, "jvm", "echo", lp, 1, mem)
        IN /\ (prov = "azure" => mem = 0)
           /\ store' = (path :> JsonDumpW(ReadFile(store, path), records)) @@ store
           /\ saves' = Append(saves, [path |-> path, records |-> records])
    /\ UNCHANGED <<runVars, deployVars, clockVars, coldVars, auxVars>>

\* ------------------------------------------------ invoke_function's clock
\* Python floats: sign, mantissa of MantissaBits bits (most significant
\* first, the first bit 1) and exponent: (-1)^neg * m * 2^e. Zero has no bits.
FloatZero == [neg |-> FALSE, m |-> <<>>, e |-> 0]

RECURSIVE IntBits(_)
IntBits(n) == IF n = 0 THEN <<>> ELSE Append(IntBits(n \div 2), n % 2)

RECURSIVE BitsInt(_)
BitsInt(b) ==
    IF b = <<>> THEN 0 ELSE 2 * BitsInt(SubSeq(b, 1, Len(b) - 1)) + b[Len(b)]

AnyBit(b) == \E i \in DOMAIN b : b[i] = 1
RECURSIVE Zeros(_)
Zeros(n) == IF n <= 0 THEN <<>> ELSE Append(Zeros(n - 1), 0)

\* b + 1 on a bit string; all ones become a string of zeros (carry out).
RECURSIVE IncBits(_)
IncBits(b) ==
    IF b = <<>> THEN <<>>
    ELSE IF b[Len(b)] = 0 THEN Append(SubSeq(b, 1, Len(b) - 1), 1)
    ELSE Append(IncBits(SubSeq(b, 1, Len(b) - 1)), 0)

\* Round to nearest, ties to even: bits holds MantissaBits + 1 bits (the last
\* one is the guard bit), sticky tells whether anything lies below the guard
\* bit, e is the exponent of the last mantissa bit.
RoundEven(neg, bits, sticky, e) ==
    LET m == SubSeq(bits, 1, MantissaBits)
        guard == bits[MantissaBits + 1]
        up == guard = 1 /\ (sticky \/ m[MantissaBits] = 1)
        inc == IncBits(m)
    IN IF ~up THEN [neg |-> neg, m |-> m, e |-> e]
       ELSE IF AnyBit(inc) THEN [neg |-> neg, m |-> inc, e |-> e]
       ELSE [neg |-> neg, m |-> <<1>> \o Zeros(MantissaBits - 1), e |-> e + 1]

\* Long division r.num / divisor, bit by bit: the first MantissaBits + 1
\* significant quotient bits, the position of the last of them and whether a
\* remainder is left.
RECURSIVE QuotientBits(_, _, _, _, _)
QuotientBits(r, num, pos, acc, divisor) ==
    IF Len(acc) = MantissaBits + 1
      THEN [bits |-> acc, pos |-> pos, sticky |-> (r # 0 \/ AnyBit(num))]
    ELSE LET b == IF num = <<>> THEN 0 ELSE Head(num)
             rest == IF num = <<>> THEN <<>> ELSE Tail(num)
             r2 == 2 * r + b
             q == IF r2 >= divisor THEN 1 ELSE 0
         IN QuotientBits(r2 - q * divisor, rest, pos + 1,
                         IF acc = <<>> /\ q = 0 THEN <<>> ELSE Append(acc, q), divisor)

Abs(n) == IF n < 0 THEN -n ELSE n

\* Variant of line 179 with floor division (//) of non-negative operands.
TrueDivide_Floor(n, divisor) ==
    LET q == Abs(n) \div divisor
    IN IF q = 0 THEN FloatZero
       ELSE [neg |-> n < 0, m |-> IntBits(q) \o Zeros(MantissaBits - Len(IntBits(q))),
             e |-> Len(IntBits(q)) - MantissaBits]

\* Line 179: int / int, the quotient rounded to the nearest float.
TrueDivide(n, divisor) ==
    IF n = 0 THEN FloatZero
    ELSE LET num == IntBits(Abs(n))
             d == QuotientBits(0, num, 0, <<>>, divisor)
         IN RoundEven(n < 0, d.bits, d.sticky, Len(num) - d.pos + 1)

\* int(time.time() * 1_000_000): whole microseconds of the clock, truncated.
IntMicros(t) == t \div TicksPerMicro

\* invoke_function, line 171: start_time, taken before the request.
ReadStart ==
    /\ pc = "t_start"
    /\ start_time' = IntMicros(clock)
    /\ pc' = "t_request"
    /\ UNCHANGED <<provider, load_profile, repetitions, memory, cold_start_counter,
                   benchmark_results, result, retries, invocations_processed,
                   results_processed, unmatched, logging, result_file, invocations,
                   non_cold, enforcements, slept, memory_sets, fetches, seen_ids,
                   complete_fetch, handed, deployVars, saveVars, coldVars, auxVars, clock,
                   end_time,
                   client_side_response_time, stepped_back>>

\* invoke_function, lines 172-177: self.http.request(...) returns a response.
\* The system clock moves meanwhile; it is not monotonic (it can be set back).
HttpRequest ==
    /\ pc = "t_request"
    /\ \E t \in 0..MaxTick :
        /\ clock' = t
        /\ stepped_back' = (t < clock)
    /\ pc' = "t_response"
    /\ UNCHANGED <<provider, load_profile, repetitions, memory, cold_start_counter,
                   benchmark_results, result, retries, invocations_processed,
                   results_processed, unmatched, logging, result_file, invocations,
                   non_cold, enforcements, slept, memory_sets, fetches, seen_ids,
                   complete_fetch, handed, deployVars, saveVars, coldVars, auxVars,
                   start_time, end_time,
                   client_side_response_time>>

\* invoke_function, lines 178-179 and 197-201: end_time, client time, record.
ReadEnd ==
    /\ pc = "t_response"
    /\ end_time' = IntMicros(clock)
    /\ client_side_response_time' = TrueDivide(IntMicros(clock) - start_time, Million)
    /\ pc' = "t_returned"
    /\ UNCHANGED <<provider, load_profile, repetitions, memory, cold_start_counter,
                   benchmark_results, result, retries, invocations_processed,
                   results_processed, unmatched, logging, result_file, invocations,
                   non_cold, enforcements, slept, memory_sets, fetches, seen_ids,
                   complete_fetch, handed, deployVars, saveVars, coldVars, auxVars, clock,
                   start_time,
                   stepped_back>>

\* ------------------------------------------- one merge of one fetch
MergeProviders == {"aws", "azure", "gcp"}

\* What one fetch of the provider's logs can return.
Fetches(prov) == IF prov = "gcp" THEN SeqsUpTo(GcpEntries) ELSE SeqsUpTo(LogEntries)

\* The merge of one fetch into the record set, as each enrich_metrics does
\* it: aws.py:347-349, azure.py:251-257, gcp.py:226-241. raised: an exception
\* left the merge.
MergeOnce(prov, requests, logs) ==
    CASE prov = "aws" ->
           LET p == ProcessQueryResults(logs, requests, 0, Keys(requests))
           IN [requests |-> p.requests, raised |-> p.raised]
      [] prov = "azure" ->
           [requests |-> AzureRows(requests, {}, logs).requests, raised |-> FALSE]
      [] OTHER ->
           LET m == GcpMerge(logs, requests, {}, Keys(requests))
           IN [requests |-> m.requests, raised |-> m.raised]

NoMerge == [requests |-> EmptyMap, raised |-> FALSE]

\* The merge is applied to the fetch.
Merge ==
    /\ pc = "m_ready"
    /\ merge_out' = MergeOnce(provider, requests_in, fetch_in)
    /\ pc' = "m_done"
    /\ UNCHANGED <<provider, load_profile, repetitions, memory, cold_start_counter,
                   benchmark_results, result, retries, invocations_processed,
                   results_processed, unmatched, logging, result_file, invocations,
                   non_cold, enforcements, slept, memory_sets, fetches, seen_ids,
                   complete_fetch, handed, deployVars, saveVars, clockVars, coldVars,
                   requests_in, fetch_in, traceVars, windowVars>>

MergeIdle ==
    /\ requests_in = EmptyMap
    /\ fetch_in = <<>>
    /\ merge_out = NoMerge

\* ------------------------------------------- invoke_function's request id
\* invoke_function, lines 159-168: the headers of the request; for knative a
\* fresh id is generated and sent as x-client-trace-id.
PrepareRequest ==
    /\ pc = "i_begin"
    /\ IF provider = "knative"
         THEN \E id \in RequestIds :
                 /\ generated_id' = id
                 /\ sent_trace_id' = Some(id)
         ELSE /\ generated_id' = NoneId
              /\ sent_trace_id' = Absent
    /\ pc' = "i_request"
    /\ UNCHANGED <<provider, load_profile, repetitions, memory, cold_start_counter,
                   benchmark_results, result, retries, invocations_processed,
                   results_processed, unmatched, logging, result_file, invocations,
                   non_cold, enforcements, slept, memory_sets, fetches, seen_ids,
                   complete_fetch, handed, deployVars, saveVars, clockVars, coldVars,
                   mergeVars, windowVars>>

\* invoke_function, lines 170-201: the request, then request_id is assigned
\* anew from the response's headers (line 180) and the record is returned.
\*   failed : a transport error, or any other exception -> exit(-1)
\*   header : the correlation id header of the response (NoneId: missing)
\*   body   : the decoded response body
SendRequest ==
    /\ pc = "i_request"
    /\ \E failed \in BOOLEAN, header \in IdValues, body \in Bodies :
        /\ (failed => header = NoneId /\ body = NoResult.response_body)
        /\ IF failed \/ GetRequestIdRaises(provider, header)
             THEN /\ pc' = "exited"
                  /\ UNCHANGED result
             ELSE /\ pc' = "i_returned"
                  /\ result' = [request_id |-> header, response_body |-> body, valid |-> TRUE]
    /\ UNCHANGED <<provider, load_profile, repetitions, memory, cold_start_counter,
                   benchmark_results, retries, invocations_processed,
                   results_processed, unmatched, logging, result_file, invocations,
                   non_cold, enforcements, slept, memory_sets, fetches, seen_ids,
                   complete_fetch, handed, deployVars, saveVars, clockVars, coldVars,
                   auxVars>>

TraceIdle ==
    /\ generated_id = NoneId
    /\ sent_trace_id = Absent

\* ------------------------------------------- the reconciliation window
\* One second, and half of it, in ticks of the clock.
SecondTicks == Million * TicksPerMicro
HalfSecondTicks == SecondTicks \div 2

\* The instants at which the clock is read: around every half second.
ClockReadings == {k * HalfSecondTicks + j : k \in 0..MaxHalfSeconds, j \in 0..1}

\* Variant of lines 295-296 that passes the readings without the slack.
WindowOf_NoSlack(begin, now) == [start |-> begin, end |-> now]

\* Lines 295-296: __begin - 1 and time.time() + 1.
WindowOf(begin, now) == [start |-> begin - SecondTicks, end |-> now + SecondTicks]

NoWindow == [start |-> 0, end |-> 0]

\* Line 240: __begin = time.time().
WindowBegin ==
    /\ pc = "w_begin"
    /\ begin_time' = clock
    /\ pc' = "w_loop"
    /\ UNCHANGED <<provider, load_profile, repetitions, memory, cold_start_counter,
                   benchmark_results, result, retries, invocations_processed,
                   results_processed, unmatched, logging, result_file, invocations,
                   non_cold, enforcements, slept, memory_sets, fetches, seen_ids,
                   complete_fetch, handed, deployVars, saveVars, clockVars, coldVars,
                   mergeVars, traceVars, window, earliest, latest, calls>>

\* Line 263, invoke_function lines 171 and 178: the clock is read before the
\* request, at t1, and after it, at t2. The clock may have been set back.
WindowInvoke ==
    /\ pc = "w_loop"
    /\ calls < MaxCalls
    /\ \E t1, t2 \in ClockReadings :
        /\ clock' = t2
        /\ stepped_back' = (stepped_back \/ t1 < clock \/ t2 < t1)
        /\ earliest' = IF calls = 0 THEN Min(t1, t2) ELSE Min(earliest, Min(t1, t2))
        /\ latest' = IF calls = 0 THEN Max(t1, t2) ELSE Max(latest, Max(t1, t2))
    /\ calls' = calls + 1
    /\ UNCHANGED <<provider, load_profile, repetitions, memory, pc, cold_start_counter,
                   benchmark_results, result, retries, invocations_processed,
                   results_processed, unmatched, logging, result_file, invocations,
                   non_cold, enforcements, slept, memory_sets, fetches, seen_ids,
                   complete_fetch, handed, deployVars, saveVars, coldVars, start_time,
                   end_time, client_side_response_time, mergeVars, traceVars,
                   begin_time, window>>

\* Lines 293-297: the window is computed and passed to the reconciler.
WindowPass ==
    /\ pc = "w_loop"
    /\ \E now \in ClockReadings :
        /\ clock' = now
        /\ stepped_back' = (stepped_back \/ now < clock)
        /\ window' = WindowOf(begin_time, now)
    /\ pc' = "w_passed"
    /\ UNCHANGED <<provider, load_profile, repetitions, memory, cold_start_counter,
                   benchmark_results, result, retries, invocations_processed,
                   results_processed, unmatched, logging, result_file, invocations,
                   non_cold, enforcements, slept, memory_sets, fetches, seen_ids,
                   complete_fetch, handed, deployVars, saveVars, coldVars, start_time,
                   end_time, client_side_response_time, mergeVars, traceVars,
                   begin_time, earliest, latest, calls>>

WindowIdle ==
    /\ begin_time = 0
    /\ window = NoWindow
    /\ earliest = 0
    /\ latest = 0
    /\ calls = 0

AuxIdle ==
    /\ MergeIdle
    /\ TraceIdle
    /\ WindowIdle

\* ------------------------------------------------- enforce_cold_start
\* The providers whose enforce_cold_start changes the function's
\* configuration; the knative branch of Benchmarker.enforce_cold_start is
\* `pass`.
ColdProviders == {"aws", "azure", "gcp"}

\* The value of cold_start_var is a string of decimal digits.
InitialVars == {Absent, <<0>>, <<9>>, <<1, 9>>}

\* int(s) of a string of digits.
RECURSIVE IntOf(_)
IntOf(s) ==
    IF Len(s) = 1 THEN s[1]
    ELSE IntOf(SubSeq(s, 1, Len(s) - 1)) * 10 + s[Len(s)]

\* str(n) of a natural number.
RECURSIVE StrOf(_)
StrOf(n) ==
    IF n < 10 THEN <<n>>
    ELSE Append(StrOf(n \div 10), n % 10)

\* dict.get(key, default).
EnvGet(v, default) == IF v = Absent THEN default ELSE v

\* The number the function's counter stands at; 0 when it is not set.
CounterValue(v) == IF v = Absent THEN 0 ELSE IntOf(v)

\* AWS.enforce_cold_start, lines 193-195.
AwsNewValue(v) == StrOf(IntOf(EnvGet(v, <<0>>)) + 1)

\* Azure.enforce_cold_start, lines 164-165 and 171.
AzureNewValue(v) == StrOf(IntOf(EnvGet(v, <<0>>)) + 1)

\* GCP._enforce_cold_start_on_cloud_run, lines 270-279: the variable is
\* raised when found, else appended with the value '1'.
GcpRunNewValue(v) == IF v # Absent THEN StrOf(IntOf(v) + 1) ELSE <<1>>

\* GCP.enforce_cold_start, lines 325-329: get('cold_start_var', 0).
GcpFunctionNewValue(v) == StrOf((IF v = Absent THEN 0 ELSE IntOf(v)) + 1)

\* Variant that always writes '1'.
NewValue_WritesOne(prov, nat, v) == <<1>>

\* Benchmarker.enforce_cold_start, lines 144-149: the provider's computation.
NewValue(prov, nat, v) ==
    CASE prov = "aws" -> AwsNewValue(v)
      [] prov = "azure" -> AzureNewValue(v)
      [] prov = "gcp" /\ nat -> GcpRunNewValue(v)
      [] OTHER -> GcpFunctionNewValue(v)

\* How a call of enforce_cold_start goes on after one of its steps:
\*   next   : the position of start_run after it
\*   state  : the state of the function's mutation
\*   failed : the mutation or its propagation failed
\*   logged : an error was logged
Outcome(next, state, failed, logged) ==
    [next |-> next, state |-> state, failed |-> failed, logged |-> logged]

\* utils.execute of a failing command: the process ends.
ExecuteFails(st) == Outcome("exited", st, TRUE, FALSE)

\* A client call that raises: _enforce_cold_start_on_cloud_run catches every
\* exception, logs it and returns (lines 290-291); GCP.enforce_cold_start has
\* no handler and neither has start_run.
GcpRaises(nat, st) ==
    IF nat THEN Outcome("invoke", st, TRUE, TRUE)
    ELSE Outcome("crashed", st, TRUE, FALSE)

\* A failure of the read or of the update of the configuration.
StepFails(prov, nat, st) ==
    IF prov = "gcp" THEN GcpRaises(nat, st) ELSE ExecuteFails(st)

\* What the wait for the update can meet: the update completes, the update
\* ends in an error, or the wait itself fails. time.sleep(20) only returns.
WaitOutcomes(prov) ==
    IF prov = "azure" THEN {"done"} ELSE {"done", "done_error", "raised"}

\* AWS.enforce_cold_start, lines 204-206: aws lambda wait function-updated-v2
\* fails when the update failed and when the waiter gives up.
AwsWait(outcome, st) ==
    IF outcome = "done" THEN Outcome("invoke", "Propagated", FALSE, FALSE)
    ELSE ExecuteFails(IF outcome = "done_error" THEN "Failed" ELSE st)

\* Azure.enforce_cold_start, line 173: time.sleep(20); for the fixed-delay
\* provider the mutation counts as propagated once the delay has elapsed.
AzureWait(outcome, st) == Outcome("invoke", "Propagated", FALSE, FALSE)

\* GCP._enforce_cold_start_on_cloud_run, lines 285-291: the loop ends when
\* operation.done() is true, whatever the operation's result.
GcpRunWait(outcome, st) ==
    CASE outcome = "done" -> Outcome("invoke", "Propagated", FALSE, FALSE)
      [] outcome = "done_error" -> Outcome("invoke", "Failed", TRUE, FALSE)
      [] OTHER -> GcpRaises(TRUE, st)

\* GCP.enforce_cold_start, lines 341-346: the loop ends when
\* deployment.done() is true, whatever the deployment's result.
GcpFunctionWait(outcome, st) ==
    CASE outcome = "done" -> Outcome("invoke", "Propagated", FALSE, FALSE)
      [] outcome = "done_error" -> Outcome("invoke", "Failed", TRUE, FALSE)
      [] OTHER -> GcpRaises(FALSE, st)

\* Benchmarker.enforce_cold_start, lines 144-149: the provider's wait.
Wait(prov, nat, outcome, st) ==
    CASE prov = "aws" -> AwsWait(outcome, st)
      [] prov = "azure" -> AzureWait(outcome, st)
      [] prov = "gcp" /\ nat -> GcpRunWait(outcome, st)
      [] OTHER -> GcpFunctionWait(outcome, st)

\* The end of a step of enforce_cold_start with outcome o.
EnforceReturns(o) ==
    /\ pc' = o.next
    /\ fn_state' = o.state
    /\ enforce_failed' = o.failed
    /\ successes' = IF o.failed THEN successes ELSE successes + 1
    /\ logging' = IF o.logged
                    THEN logging \cup {Msg("error", "failed_to_enforce_cold_start",
                                           Absent, Absent)}
                    ELSE logging

\* enforce_cold_start, first step: read the function's configuration and
\* compute the new value (aws 181-195, azure 158-165, gcp 260-279, 309-329).
EnforceGetConfiguration ==
    /\ pc = "enforce"
    /\ enforcements' = enforcements + 1
    /\ before_call' = CounterValue(cold_start_var)
    /\ \E ok \in BOOLEAN :
        IF ok
          THEN /\ new_value' = NewValue(provider, target_runtime = "native", cold_start_var)
               /\ pc' = "e_update"
               /\ UNCHANGED <<fn_state, enforce_failed, successes, logging>>
          ELSE /\ EnforceReturns(StepFails(provider, target_runtime = "native", fn_state))
               /\ UNCHANGED new_value
    /\ UNCHANGED <<provider, load_profile, repetitions, memory, cold_start_counter,
                   benchmark_results, result, retries, invocations_processed,
                   results_processed, unmatched, result_file, invocations, non_cold,
                   slept, memory_sets, fetches, seen_ids, complete_fetch, handed,
                   deployVars, saveVars, clockVars, auxVars, target_runtime, cold_start_var,
                   applied,
                   initial_value>>

\* enforce_cold_start, second step: the update of the configuration
\* (aws 198-203, azure 167-172, gcp 282, 335-339).
EnforceUpdate ==
    /\ pc = "e_update"
    /\ \E ok \in BOOLEAN :
        IF ok
          THEN /\ cold_start_var' = new_value
               /\ applied' = applied + 1
               /\ fn_state' = "Mutating"
               /\ pc' = "e_wait"
               /\ UNCHANGED <<enforce_failed, successes, logging>>
          ELSE /\ EnforceReturns(StepFails(provider, target_runtime = "native", fn_state))
               /\ UNCHANGED <<cold_start_var, applied>>
    /\ UNCHANGED <<provider, load_profile, repetitions, memory, cold_start_counter,
                   benchmark_results, result, retries, invocations_processed,
                   results_processed, unmatched, result_file, invocations, non_cold,
                   enforcements, slept, memory_sets, fetches, seen_ids,
                   complete_fetch, handed, deployVars, saveVars, clockVars, auxVars,
                   target_runtime,
                   new_value, initial_value, before_call>>

\* enforce_cold_start, last step: the wait for the update
\* (aws 204-206, azure 173, gcp 285-287, 343-346).
EnforceWait ==
    /\ pc = "e_wait"
    /\ \E outcome \in WaitOutcomes(provider) :
        EnforceReturns(Wait(provider, target_runtime = "native", outcome, fn_state))
    /\ UNCHANGED <<provider, load_profile, repetitions, memory, cold_start_counter,
                   benchmark_results, result, retries, invocations_processed,
                   results_processed, unmatched, result_file, invocations, non_cold,
                   enforcements, slept, memory_sets, fetches, seen_ids,
                   complete_fetch, handed, deployVars, saveVars, clockVars, auxVars,
                   target_runtime,
                   cold_start_var, new_value, applied, initial_value, before_call>>

ColdIdle ==
    /\ target_runtime = "jvm"
    /\ cold_start_var = Absent
    /\ fn_state = "Warm"
    /\ new_value = Absent
    /\ enforce_failed = FALSE
    /\ successes = 0
    /\ applied = 0
    /\ initial_value = 0
    /\ before_call = 0

ClockIdle ==
    /\ clock = 0
    /\ start_time = 0
    /\ end_time = 0
    /\ client_side_response_time = FloatZero
    /\ stepped_back = FALSE

SaveIdle ==
    /\ store = EmptyMap
    /\ saves = <<>>

ExtIdle ==
    /\ SaveIdle
    /\ ClockIdle
    /\ ColdIdle
    /\ AuxIdle

\* ------------------------------------------------------ specification
\* memory_sizes = [None] for azure, else the benchmark's configured sizes.
MemorySizes(prov) == IF prov = "azure" THEN {0} ELSE {128}

RunState(p) ==
    /\ pc = p
    /\ cold_start_counter = 0
    /\ benchmark_results = EmptyMap
    /\ result = NoResult
    /\ retries = 0
    /\ invocations_processed = {}
    /\ results_processed = 0
    /\ unmatched = {}
    /\ logging = {}
    /\ result_file = Absent
    /\ invocations = 0
    /\ non_cold = 0
    /\ enforcements = 0
    /\ slept = 0
    /\ memory_sets = 0
    /\ fetches = 0
    /\ seen_ids = {}
    /\ complete_fetch = FALSE
    /\ handed = Absent

\* A run of the benchmarker: the target and the options are the inputs.
Init ==
    /\ provider \in Providers
    /\ load_profile \in LoadProfiles
    /\ repetitions \in 0..MaxReps
    /\ memory \in MemorySizes(provider)
    /\ RunState("begin")
    /\ DeployIdle
    /\ ExtIdle

Next ==
    \/ BeginTarget
    \/ EnforceColdStart
    \/ InvokeFunction
    \/ CheckColdStart
    \/ GetProviderTimeAndUpdateResults
    \/ AzureQuery
    \/ AzureReturn
    \/ AwsQuery
    \/ AwsReturn
    \/ GcpEnrich
    \/ SaveResults

Spec == Init /\ [][Next]_vars

\* Deploys of one benchmark, with edits of its directories in between; no
\* benchmark run is in progress.
InitDeploy ==
    /\ provider = "aws"
    /\ load_profile = "COLD"
    /\ repetitions = 0
    /\ memory = 0
    /\ RunState("idle")
    /\ DeployIdle
    /\ ExtIdle

NextDeploy ==
    \/ Deploy
    \/ EditSource
    \/ DeleteTarget
    \/ TamperTarget

SpecDeploy == InitDeploy /\ [][NextDeploy]_vars

\* A run against an azure target. The loop of Azure.enrich_metrics is
\* sequential code: each query returns and the loop takes its next step.
InitAzure ==
    /\ Init
    /\ provider = "azure"

NextAzure ==
    \/ BeginTarget
    \/ EnforceColdStart
    \/ InvokeFunction
    \/ CheckColdStart
    \/ GetProviderTimeAndUpdateResults
    \/ AzureQuery
    \/ AzureReturn
    \/ SaveResults

SpecAzure ==
    InitAzure /\ [][NextAzure]_vars /\ WF_vars(AzureQuery) /\ WF_vars(AzureReturn)

\* One call of invoke_function, the clock read before and after the request.
InitClock ==
    /\ provider = "aws"
    /\ load_profile = "COLD"
    /\ repetitions = 0
    /\ memory = 0
    /\ RunState("t_start")
    /\ DeployIdle
    /\ SaveIdle
    /\ ColdIdle
    /\ AuxIdle
    /\ clock \in 0..MaxStart
    /\ start_time = 0
    /\ end_time = 0
    /\ client_side_response_time = FloatZero
    /\ stepped_back = FALSE

NextClock ==
    \/ ReadStart
    \/ HttpRequest
    \/ ReadEnd

SpecClock == InitClock /\ [][NextClock]_vars

\* The cold-start loop of one target, with the function's configuration at
\* the provider.
InitCold ==
    /\ provider \in ColdProviders
    /\ load_profile = "COLD"
    /\ repetitions \in 1..MaxReps
    /\ memory \in MemorySizes(provider)
    /\ RunState("begin")
    /\ DeployIdle
    /\ SaveIdle
    /\ ClockIdle
    /\ AuxIdle
    /\ target_runtime \in Runtimes
    /\ cold_start_var \in InitialVars
    /\ fn_state = "Warm"
    /\ new_value = Absent
    /\ enforce_failed = FALSE
    /\ successes = 0
    /\ applied = 0
    /\ initial_value = CounterValue(cold_start_var)
    /\ before_call = CounterValue(cold_start_var)

NextCold ==
    \/ BeginTarget
    \/ EnforceGetConfiguration
    \/ EnforceUpdate
    \/ EnforceWait
    \/ InvokeFunction
    \/ CheckColdStart

SpecCold == InitCold /\ [][NextCold]_vars

\* One merge: the record set and the fetch are the inputs.
InitMerge ==
    /\ provider \in MergeProviders
    /\ load_profile = "COLD"
    /\ repetitions = 0
    /\ memory = 0
    /\ RunState("m_ready")
    /\ DeployIdle
    /\ SaveIdle
    /\ ClockIdle
    /\ ColdIdle
    /\ requests_in \in RecordSets
    /\ fetch_in \in Fetches(provider)
    /\ merge_out = NoMerge
    /\ TraceIdle
    /\ WindowIdle

NextMerge == Merge

SpecMerge == InitMerge /\ [][NextMerge]_vars

\* One call of invoke_function: the provider and the response are the inputs.
InitTrace ==
    /\ provider \in Providers
    /\ load_profile = "COLD"
    /\ repetitions = 0
    /\ memory = 0
    /\ RunState("i_begin")
    /\ DeployIdle
    /\ ExtIdle

NextTrace ==
    \/ PrepareRequest
    \/ SendRequest

SpecTrace == InitTrace /\ [][NextTrace]_vars

\* One target of start_run, from __begin to the hand-over of the window.
InitWindow ==
    /\ provider = "aws"
    /\ load_profile = "COLD"
    /\ repetitions = 0
    /\ memory = 0
    /\ RunState("w_begin")
    /\ DeployIdle
    /\ SaveIdle
    /\ ColdIdle
    /\ MergeIdle
    /\ TraceIdle
    /\ WindowIdle
    /\ clock \in ClockReadings
    /\ start_time = 0
    /\ end_time = 0
    /\ client_side_response_time = FloatZero
    /\ stepped_back = FALSE

NextWindow ==
    \/ WindowBegin
    \/ WindowInvoke
    \/ WindowPass

SpecWindow == InitWindow /\ [][NextWindow]_vars

\* One COLD target of start_run, from the set-up to the written file; the
\* reconciliation of aws, azure and gcp is left to Spec.
InitLoop ==
    /\ provider \in Providers
    /\ load_profile = "COLD"
    /\ repetitions \in 0..MaxReps
    /\ memory \in MemorySizes(provider)
    /\ RunState("begin")
    /\ DeployIdle
    /\ ExtIdle

NextLoop ==
    \/ BeginTarget
    \/ LoopEnforce
    \/ ColdResponse
    \/ OtherResponse
    \/ LoopCheck
    \/ GetProviderTimeAndUpdateResults
    \/ SaveResults

\* The process runs on: every step of the loop that can be taken is taken,
\* and every request is answered. The provider is assumed to give a cold
\* response again and again to a loop that keeps asking.
SpecLoop ==
    /\ InitLoop
    /\ [][NextLoop]_vars
    /\ WF_vars(BeginTarget)
    /\ WF_vars(LoopEnforce)
    /\ WF_vars(ColdResponse \/ OtherResponse)
    /\ WF_vars(LoopCheck)
    /\ SF_vars(ColdResponse)

\* Writes of result files by successive targets and runs.
NextSave == SaveTarget

SpecSave == InitDeploy /\ [][NextSave]_vars

\* ==================================================================== claims
RecordIds == Keys(benchmark_results)
HasProviderTime(requests, id) == requests[id].provider_time # Absent

\* C1: in a cold-profile run every record of the target's record set holds
\* the body of a response that reported is_cold true; a response whose
\* is_cold is false or missing never enters the set.
C1_OnlyColdRecorded ==
    load_profile = "COLD" =>
        \A id \in RecordIds :
            /\ benchmark_results[id].response_body.json
            /\ benchmark_results[id].response_body.is_cold = "true"

\* C1 witness: a record was stored in a run that also discarded a response.
C1_Witness ==
    /\ load_profile = "COLD"
    /\ pc = "reconcile"
    /\ non_cold >= 1
    /\ RecordIds # {}

\* C2: a response that is not cold leaves the counter and the record set as
\* they were, sleeps the fixed backoff and goes back to the enforcement, which
\* is followed by a new invocation for the same slot; the counter only moves,
\* by one, on a response that reported a cold start.
C2_DiscardRetriesSameSlot ==
    [][ /\ (pc = "check" /\ result.response_body.json /\ ~IsCold(result.response_body))
            => /\ cold_start_counter' = cold_start_counter
               /\ benchmark_results' = benchmark_results
               /\ slept' = slept + ColdBackoff
               /\ pc' = "enforce"
        /\ (pc = "enforce")
            => /\ pc' = "invoke"
               /\ enforcements' = enforcements + 1
               /\ cold_start_counter' = cold_start_counter
        /\ (pc = "invoke")
            => /\ invocations' = invocations + 1
               /\ cold_start_counter' = cold_start_counter
        /\ (cold_start_counter' # cold_start_counter /\ pc # "begin")
            => /\ pc = "check"
               /\ IsCold(result.response_body)
               /\ cold_start_counter' = cold_start_counter + 1
      ]_vars

\* C2 witness: after a discarded attempt the slot is enforced again and a new
\* invocation is about to be made, the counter still where it was.
C2_Witness ==
    /\ pc = "invoke"
    /\ non_cold = MaxDiscards
    /\ slept = MaxDiscards * ColdBackoff
    /\ enforcements = invocations + 1
    /\ cold_start_counter = 0

\* C3: when the cold-start loop is left, N + k invocations were made for k
\* non-cold responses and the record set holds N records.
C3_ExactCounts ==
    (load_profile = "COLD" /\ pc = "reconcile")
        => /\ invocations = repetitions + non_cold
           /\ Cardinality(RecordIds) = repetitions

\* C4: the record set handed to the reconciler holds exactly `repetitions`
\* records, whatever ids the provider returned and whatever the load profile.
C4_HandedSetComplete ==
    handed # Absent => Cardinality(Keys(handed[1])) = repetitions

\* C5: when a fetch held exactly one entry per record of the set, the
\* reconciler returns all the records handed to it, each with provider_time
\* set, no id left unmatched and no warning.
C5_AllMatched ==
    (pc = "save" /\ complete_fetch)
        => /\ RecordIds = Keys(handed[1])
           /\ \A id \in RecordIds : HasProviderTime(benchmark_results, id)
           /\ unmatched = {}
           /\ \A m \in logging : m.level # "warning"

\* C5 witness: the AWS reconciler returned a set of two records after a
\* query that held one entry for each.
C5_Witness ==
    /\ pc = "save"
    /\ provider = "aws"
    /\ complete_fetch
    /\ Cardinality(RecordIds) = 2

\* C6: while no fetch has held an entry for a record of the set, the
\* reconciler of every provider makes no more fetches than the largest
\* attempt budget, and it returns with every provider_time absent and every
\* id unmatched.
C6_BoundedWhenNothingMatches ==
    (handed # Absent /\ seen_ids = {})
        => /\ fetches <= max_retries
           /\ (pc = "save" =>
                 /\ \A id \in RecordIds : ~HasProviderTime(benchmark_results, id)
                 /\ unmatched = RecordIds)

\* C7: the reconciler returns the record set with the same keys, in which
\* exactly the records for which a fetch held an entry have provider_time
\* set, and the ids it holds as unmatched are the others.
C7_PartialMerge ==
    pc = "save"
        => /\ RecordIds = Keys(handed[1])
           /\ \A id \in RecordIds :
                 HasProviderTime(benchmark_results, id) <=> id \in seen_ids
           /\ unmatched = RecordIds \ seen_ids

\* C7 witness: record set {a, b, c}, one GCP fetch with entries for a and b.
C7_Witness ==
    /\ pc = "save"
    /\ provider = "gcp"
    /\ fetches = 1
    /\ RecordIds = {"a", "b", "c"}
    /\ seen_ids = {"a", "b"}
    /\ ~HasProviderTime(benchmark_results, "c")

\* C8: when the run of a target ends with records left without provider_time,
\* a warning that carries exactly the set of their ids was emitted and the
\* result file holds the record set.
C8_PartialIsWarned ==
    (pc = "done" /\ provider \in {"aws", "azure", "gcp"})
        => LET missing == {id \in RecordIds : ~HasProviderTime(benchmark_results, id)}
           IN missing # {}
                => /\ \E m \in logging : m.level = "warning" /\ m.ids = Some(missing)
                   /\ result_file = Some(benchmark_results)

DeployEvents == {i \in DOMAIN history : history[i].op = "deploy"}

\* C9: a deploy skips the build only if a cache entry exists for its key, the
\* source hash and the output hash both equal the cached ones and the output
\* directory exists.
C9_SkipOnlyOnFullMatch ==
    \A i \in DeployEvents :
        ~history[i].built
            => /\ history[i].had_entry
               /\ history[i].src_equal
               /\ history[i].target_equal
               /\ history[i].target_existed

\* C9 witness: a deploy that built for want of a cache entry, a deploy of the
\* same key that skipped on a full match, and a deploy of another key that
\* built although the output was there.
C9_Witness ==
    /\ Len(history) = 3
    /\ history[1].op = "deploy" /\ history[1].built /\ ~history[1].had_entry
    /\ history[2].op = "deploy" /\ ~history[2].built /\ history[2].target_equal
    /\ history[3].op = "deploy" /\ history[3].built /\ history[3].target_existed
    /\ history[3].key # history[1].key

LastSave(path) ==
    CHOOSE i \in DOMAIN saves :
        /\ saves[i].path = path
        /\ \A j \in DOMAIN saves : saves[j].path = path => j <= i

\* C11: every result file holds exactly the record set of the last write
\* made under its key; a write replaces what the file held, it adds nothing
\* to it and keeps nothing of it.
C11_SecondWriteReplaces ==
    /\ DOMAIN store = {saves[i].path : i \in DOMAIN saves}
    /\ \A path \in DOMAIN store : store[path] = saves[LastSave(path)].records

\* C11 witness: two writes under one key, the first with a record the second
\* does not have.
C11_Witness ==
    /\ Len(saves) = 2
    /\ saves[1].path = saves[2].path
    /\ DOMAIN saves[1].records = {"a", "b"}
    /\ DOMAIN saves[2].records = {"b"}
    /\ saves[1].records["b"] # saves[2].records["b"]

\* Float times a positive int: the exact product rounded to the nearest float.
RECURSIVE MulBits(_, _, _, _)
MulBits(b, c, carry, out) ==
    IF b = <<>> THEN IntBits(carry) \o out
    ELSE LET t == b[Len(b)] * c + carry
         IN IF t % 2 = 1
              THEN MulBits(SubSeq(b, 1, Len(b) - 1), c, t \div 2, <<1>> \o out)
              ELSE MulBits(SubSeq(b, 1, Len(b) - 1), c, t \div 2, <<0>> \o out)
FloatTimesInt(x, c) ==
    IF x.m = <<>> THEN FloatZero
    ELSE LET p == MulBits(x.m, c, 0, <<>>)
             extra == Len(p) - MantissaBits
         IN IF extra <= 0
              THEN [neg |-> x.neg, m |-> p \o Zeros(-extra), e |-> x.e + extra]
              ELSE RoundEven(x.neg, SubSeq(p, 1, MantissaBits + 1),
                             AnyBit(SubSeq(p, MantissaBits + 2, Len(p))), x.e + extra)

\* float == int, for floats below 2^MantissaBits in magnitude.
FloatEqInt(x, n) ==
    IF x.m = <<>> THEN n = 0
    ELSE /\ x.e <= 0 /\ -x.e < MantissaBits
         /\ ~AnyBit(SubSeq(x.m, MantissaBits + x.e + 1, MantissaBits))
         /\ (IF x.neg THEN -1 ELSE 1) * BitsInt(SubSeq(x.m, 1, MantissaBits + x.e)) = n

\* round(float): the nearest int, ties to even, for the same floats.
RoundFloat(x) ==
    IF x.m = <<>> \/ -x.e > MantissaBits THEN 0
    ELSE LET k == -x.e
             whole == BitsInt(SubSeq(x.m, 1, MantissaBits - k))
             frac == SubSeq(x.m, MantissaBits - k + 1, MantissaBits)
             up == /\ frac # <<>> /\ frac[1] = 1
                   /\ (AnyBit(Tail(frac)) \/ whole % 2 = 1)
         IN (IF x.neg THEN -1 ELSE 1) * (IF up THEN whole + 1 ELSE whole)

\* C12: in the record invoke_function returns, client_end is not before
\* client_begin unless the system clock was set back during the request, and
\* client_time, in seconds, times 1,000,000 and rounded to the nearest
\* microsecond is client_end - client_begin.
C12_ClientTimeIsElapsed ==
    pc = "t_returned"
        => /\ (~stepped_back => end_time >= start_time)
           /\ RoundFloat(FloatTimesInt(client_side_response_time, Million))
                = end_time - start_time

\* C12 witness: a request of 123 microseconds, for which client_time times
\* 1,000,000 is not a whole number.
C12_Witness ==
    /\ pc = "t_returned"
    /\ ~stepped_back
    /\ end_time - start_time = 123
    /\ ~FloatEqInt(FloatTimesInt(client_side_response_time, Million), 123)

\* C12 as stated: client_end >= client_begin and client_time times 1,000,000
\* equals client_end - client_begin.
C12_AsStated ==
    pc = "t_returned"
        => /\ end_time >= start_time
           /\ FloatEqInt(FloatTimesInt(client_side_response_time, Million),
                         end_time - start_time)

\* C13: a response body that is not valid JSON comes back from
\* invoke_function as a record with the raw text, and the run carries on from
\* it: the next step is the enforcement for a slot or the reconciliation, the
\* process does not end.
C13_MalformedBodyCarriesOn ==
    [][(pc = "check" /\ result.valid /\ ~result.response_body.json)
          => pc' \in {"enforce", "reconcile"}]_vars

\* C14: an invocation that fails ends the process there and then: it stays
\* ended, the target's records are not handed to the reconciler, no log is
\* fetched and no result file is written.
C14_FailureEndsTheProcess ==
    [][/\ (pc = "invoke" /\ ~result'.valid) => pc' = "exited"
       /\ pc = "exited" => pc' = "exited"
       /\ pc' = "exited" => /\ handed' = Absent
                            /\ fetches' = 0
                            /\ result_file' = Absent]_vars

\* C14 witness: the process ended on a failed invocation with a record
\* already collected for the target.
C14_Witness ==
    /\ pc = "exited"
    /\ RecordIds # {}
    /\ cold_start_counter < repetitions
    /\ result_file = Absent

\* C18: the memory configuration of a target's memory variant is applied at
\* most once, at the start of the variant before any enforcement or
\* invocation, and no step of the repetition loop applies it again.
C18_MemorySetOnce ==
    [][/\ memory_sets' <= 1
       /\ memory_sets' # memory_sets
            => /\ pc = "begin"
               /\ memory # 0
               /\ enforcements = 0 /\ invocations = 0
               /\ enforcements' = 0 /\ invocations' = 0]_vars

\* C18 witness: the second repetition is about to be invoked after a
\* discarded attempt, the memory having been configured once.
C18_Witness ==
    /\ pc = "invoke"
    /\ memory # 0
    /\ memory_sets = 1
    /\ cold_start_counter = 1
    /\ non_cold >= 1
    /\ enforcements = 3

\* C19: the azure reconciler makes at most max_retries (10) queries, makes a
\* query only while a record is unmatched, always returns, and when it
\* returns with records unmatched it has used the 10 queries and returns the
\* record set, merged as far as matched, with a warning.
C19_AzureBoundedAndPartial ==
    /\ [](fetches <= max_retries)
    /\ [][fetches' # fetches =>
            /\ invocations_processed # Keys(benchmark_results)
            /\ retries < max_retries]_vars
    /\ []((pc = "save" /\ unmatched # {})
            => /\ fetches = max_retries
               /\ RecordIds = Keys(handed[1])
               /\ \A id \in RecordIds :
                     HasProviderTime(benchmark_results, id) <=> id \in seen_ids
               /\ \E m \in logging : m.level = "warning")
    /\ ((pc = "azure_enrich") ~> (pc = "save"))

\* C19 witness: the azure reconciler returned after its tenth query with one
\* record matched and another not.
C19_Witness ==
    /\ provider = "azure"
    /\ pc = "save"
    /\ fetches = max_retries
    /\ seen_ids # {}
    /\ unmatched # {}
    /\ \E m \in logging : m.level = "warning"

\* C20: a call of the gcp reconciler makes exactly one log fetch and, whatever
\* the fetch holds, returns the record set with the matches found merged.
C20_SingleFetchReturnsMerged ==
    [][pc = "gcp_enrich" =>
         /\ fetches = 0 /\ fetches' = 1
         /\ pc' = "save"
         /\ Keys(benchmark_results') = RecordIds
         /\ \A id \in RecordIds :
               HasProviderTime(benchmark_results', id) <=> id \in seen_ids']_vars

\* An enforce_cold_start call is in progress.
Enforcing == pc \in {"e_update", "e_wait"}

\* C15: after an enforce_cold_start call whose mutation or propagation
\* failed the runner makes no invocation, and no invocation made after it is
\* counted as a cold-start measurement.
C15_FailedEnforcementIsFatal ==
    [][/\ invocations' # invocations => ~enforce_failed
       /\ cold_start_counter' # cold_start_counter => ~enforce_failed]_vars

\* C16: the runner never dispatches an invocation while the function's
\* cold-start mutation is still in progress (state Mutating).
C16_NeverInvokedWhileMutating ==
    [][invocations' # invocations => fn_state # "Mutating"]_vars

\* C17: a successful enforce_cold_start call leaves the counter one above
\* its value at the call (0 when absent) and the counter never decreases;
\* between calls the counter is the initial value plus the number of updates
\* the provider accepted, which is at least the number of successful calls.
C17_CounterRaisedByOne ==
    /\ [][/\ CounterValue(cold_start_var') >= CounterValue(cold_start_var)
          /\ successes' # successes
                => CounterValue(cold_start_var') = before_call + 1]_vars
    /\ [](~Enforcing => /\ CounterValue(cold_start_var) = initial_value + applied
                        /\ successes <= applied)

\* C17 witness: two successful calls and a failed one whose update had been
\* accepted took the counter from 19 to 22.
C17_Witness ==
    /\ pc = "invoke"
    /\ ~enforce_failed
    /\ initial_value = 19
    /\ successes = 2
    /\ applied = 3
    /\ cold_start_var = <<2, 2>>

\* C17 as stated: after k successful calls the counter is the initial value
\* plus k.
C17_AsStated ==
    ~Enforcing => CounterValue(cold_start_var) = initial_value + successes

\* A record with its provider_time left out of the comparison.
WithoutProviderTime(record) == [record EXCEPT !.provider_time = Absent]

Reconciling == pc \in {"gcp_enrich", "aws_enrich", "azure_enrich"}

\* C21: a step of the reconciliation keeps the keys of the record set and
\* every field of every record but provider_time; provider_time is absent
\* until the reconciliation begins and is set only for an id that a fetch
\* held an entry for.
C21_OnlyProviderTimeChanges ==
    /\ [][Reconciling =>
            /\ Keys(benchmark_results') = RecordIds
            /\ \A id \in RecordIds :
                  /\ WithoutProviderTime(benchmark_results'[id])
                       = WithoutProviderTime(benchmark_results[id])
                  /\ HasProviderTime(benchmark_results', id) => id \in seen_ids']_vars
    /\ [](pc \in {"begin", "enforce", "invoke", "check", "reconcile"}
            => \A id \in RecordIds : ~HasProviderTime(benchmark_results, id))

\* C21 witness: the reconciliation returned a set of two records, one with
\* its time merged and one without, both with the body they were stored with.
C21_Witness ==
    /\ pc = "save"
    /\ provider \in {"aws", "azure", "gcp"}
    /\ handed # Absent
    /\ \E id1, id2 \in RecordIds :
          /\ HasProviderTime(benchmark_results, id1)
          /\ ~HasProviderTime(benchmark_results, id2)
          /\ benchmark_results[id1].response_body = handed[1][id1].response_body
          /\ IsCold(benchmark_results[id1].response_body)

\* The correlation id a log entry carries, if it carries one: the request id
\* of a REPORT line, the invocation id of a row, the trace of a LogEntry.
CarriesId(prov, e) == prov = "gcp" => (e.type = "LogEntry" /\ e.trace # NoTrace)
EntryId(prov, e) == IF prov = "gcp" THEN e.trace ELSE e.id
EntryDuration(prov, e) ==
    IF prov = "gcp" THEN LatencyToSeconds(e.latency) ELSE MsToSeconds(e.duration)
Foreign(prov, e, requests) == CarriesId(prov, e) /\ EntryId(prov, e) \notin Keys(requests)
Known(prov, e, requests) == CarriesId(prov, e) /\ EntryId(prov, e) \in Keys(requests)
WellFormed(prov, e) == (prov = "gcp" /\ CarriesId(prov, e)) => e.http

\* The entries of the fetch that are for records of the set are well formed
\* and no two of them are for the same record.
KnownEntriesPlain ==
    /\ \A i \in DOMAIN fetch_in :
          Known(provider, fetch_in[i], requests_in) => WellFormed(provider, fetch_in[i])
    /\ \A i, j \in DOMAIN fetch_in :
          (/\ i # j
           /\ Known(provider, fetch_in[i], requests_in)
           /\ Known(provider, fetch_in[j], requests_in))
             => EntryId(provider, fetch_in[i]) # EntryId(provider, fetch_in[j])

WithoutForeign ==
    LET Keep(e) == ~Foreign(provider, e, requests_in)
    IN SelectSeq(fetch_in, Keep)

\* C24: a log entry whose correlation id is no key of the record set is
\* ignored: the merge ends as it does on the fetch without such entries,
\* without an exception and with the same record set.
C24_ForeignEntriesIgnored ==
    (/\ pc = "m_done"
     /\ KnownEntriesPlain
     /\ \E i \in DOMAIN fetch_in : Foreign(provider, fetch_in[i], requests_in))
       => /\ ~merge_out.raised
          /\ merge_out = MergeOnce(provider, requests_in, WithoutForeign)

\* The last entry of the fetch that carries id.
LastEntryFor(id) ==
    LET i == CHOOSE k \in DOMAIN fetch_in :
                /\ Known(provider, fetch_in[k], requests_in)
                /\ EntryId(provider, fetch_in[k]) = id
                /\ \A j \in DOMAIN fetch_in :
                      (j > k /\ CarriesId(provider, fetch_in[j]))
                        => EntryId(provider, fetch_in[j]) # id
    IN fetch_in[i]

\* C25: when a fetch of well-formed entries for records of the set holds
\* several entries for one id, the merge completes and every record the fetch
\* has an entry for ends with the duration of the last of its entries.
C25_LastDuplicateWins ==
    (/\ pc = "m_done"
     /\ \A i \in DOMAIN fetch_in :
           /\ CarriesId(provider, fetch_in[i])
           /\ Known(provider, fetch_in[i], requests_in)
           /\ WellFormed(provider, fetch_in[i])
     /\ \E i, j \in DOMAIN fetch_in :
           i < j /\ EntryId(provider, fetch_in[i]) = EntryId(provider, fetch_in[j]))
       => /\ ~merge_out.raised
          /\ \A i \in DOMAIN fetch_in :
                LET id == EntryId(provider, fetch_in[i])
                IN merge_out.requests[id].provider_time
                     = Some(EntryDuration(provider, LastEntryFor(id)))

\* C26: the aws reconciler returns only from a query whose results matched
\* every record; whenever it has returned, and whenever the result file of an
\* aws target is written, every record has its provider_time and a fetch held
\* an entry for it; the number of queries is not capped.
C26_AwsReturnsOnlyComplete ==
    /\ [][(pc = "aws_enrich" /\ pc' = "save") =>
            /\ results_processed = Cardinality(RecordIds)
            /\ RecordIds # {} => complete_fetch]_vars
    /\ []((provider = "aws" /\ (pc \in {"save", "done"} \/ result_file # Absent))
            => \A id \in RecordIds :
                  HasProviderTime(benchmark_results, id) /\ id \in seen_ids)

\* C26 witness: the aws reconciler returned a set of two records after more
\* queries than any budget in the code.
C26_Witness ==
    /\ provider = "aws"
    /\ pc = "save"
    /\ fetches > max_retries
    /\ Cardinality(RecordIds) = 2
    /\ \A id \in RecordIds : HasProviderTime(benchmark_results, id)

\* C27: in a cold-profile run an invocation is made only right after an
\* enforce_cold_start call, and an enforce_cold_start call only when no
\* invocation is pending; the enforcement calls made equal the invocations
\* issued, or exceed them by one exactly while an invocation is pending.
C27_EnforceBeforeEveryInvocation ==
    /\ [][/\ invocations' # invocations /\ invocations' # 0
               => /\ pc = "invoke"
                  /\ invocations' = invocations + 1
                  /\ enforcements = invocations + 1
          /\ enforcements' # enforcements /\ enforcements' # 0
               => /\ enforcements' = enforcements + 1
                  /\ enforcements = invocations
                  /\ pc' = "invoke"]_vars
    /\ [](load_profile = "COLD" =>
            /\ pc = "invoke" => enforcements = invocations + 1
            /\ pc \in {"enforce", "check"} => enforcements = invocations)

\* C27 witness: the third invocation is pending after two discarded attempts,
\* each attempt with its own enforcement.
C27_Witness ==
    /\ load_profile = "COLD"
    /\ pc = "invoke"
    /\ non_cold = 2
    /\ cold_start_counter = 0
    /\ invocations = 2
    /\ enforcements = 3

\* C30: from one fetch of a reconciliation call to the next, a provider_time
\* that is set stays set and the count of matched records does not go down.
C30_MatchedSetOnlyGrows ==
    [][(pc \in {"aws_enrich", "azure_enrich"} /\ pc' = pc) =>
         /\ \A id \in RecordIds :
               HasProviderTime(benchmark_results, id)
                 => HasProviderTime(benchmark_results', id)
         /\ invocations_processed \subseteq invocations_processed'
         /\ results_processed' >= results_processed]_vars

\* C28: a deploy skips the build only when the output directory holds what
\* the last successful build for its own key left; a deploy that finds the
\* output of a build for another key builds.
C28_SkipOnlyOnOwnOutput ==
    /\ \A i \in DeployEvents :
          ~history[i].built =>
             \E j \in DeployEvents :
                /\ j < i
                /\ history[j].key = history[i].key
                /\ history[j].built /\ history[j].ok
                /\ history[j].target_gate = history[i].target_seen
                /\ \A k \in DeployEvents :
                      (j < k /\ k < i /\ history[k].key = history[i].key)
                        => ~(history[k].built /\ history[k].ok)
    /\ \A i, j \in DeployEvents :
          (/\ j < i
           /\ history[j].key # history[i].key
           /\ history[j].built /\ history[j].ok
           /\ history[i].target_seen = history[j].target_gate)
             => history[i].built

\* C28 witness: a build for one key, a build for another key that replaced
\* the output, and a deploy for the first key, its source unchanged, that
\* found the other key's output and built again.
C28_Witness ==
    /\ Len(history) = 3
    /\ \A i \in 1..3 : history[i].op = "deploy" /\ history[i].built /\ history[i].ok
    /\ history[2].key # history[1].key
    /\ history[3].key = history[1].key
    /\ history[3].had_entry /\ history[3].src_equal /\ ~history[3].target_equal
    /\ history[3].target_seen = history[2].target_gate

\* C23: for knative, invoke_function generates the correlation id before the
\* call, sends it as the x-client-trace-id request header, and the record it
\* returns carries exactly the generated id.
C23_RecordCarriesGeneratedId ==
    /\ (provider = "knative" /\ pc \in {"i_request", "i_returned"})
          => /\ generated_id # NoneId
             /\ sent_trace_id = Some(generated_id)
    /\ (provider = "knative" /\ pc = "i_returned")
          => result.request_id = generated_id

\* The part of C23 that concerns the request: the id is generated before the
\* call and sent in the header.
C23_GeneratedIdIsSent ==
    (provider = "knative" /\ pc \in {"i_request", "i_returned"})
       => /\ generated_id # NoneId
          /\ sent_trace_id = Some(generated_id)

\* A knative record whose id is not the generated one.
C23_RecordWithOtherId ==
    /\ provider = "knative"
    /\ pc = "i_returned"
    /\ result.request_id # generated_id

\* A clock reading as the record's stamp: int(time.time() * 1_000_000), in ticks.
Stamp(t) == IntMicros(t) * TicksPerMicro

\* C22: provided the clock is not set back during the target's run, the
\* window passed to the reconciler starts at least 1 s before the first
\* invocation begins and ends at least 1 s after the last invocation has
\* ended, and every record's client_begin and client_end lie inside it.
C22_WindowCoversInvocations ==
    (pc = "w_passed" /\ calls > 0 /\ ~stepped_back)
       => /\ window.start + SecondTicks <= earliest
          /\ latest + SecondTicks <= window.end
          /\ window.start <= Stamp(earliest)
          /\ Stamp(latest) <= window.end

\* C22 witness: a window passed after two invocations under a clock that was
\* never set back, the first begun later than __begin at an instant that is
\* not a whole microsecond, the last ended later than the first began.
C22_Witness ==
    /\ pc = "w_passed"
    /\ calls >= 2
    /\ ~stepped_back
    /\ earliest > begin_time
    /\ Stamp(earliest) < earliest
    /\ latest > earliest
    /\ window = WindowOf(begin_time, clock)

\* C22 as stated, whatever the clock does: every record's client_begin and
\* client_end lie inside the window.
C22_AsStated ==
    (pc = "w_passed" /\ calls > 0)
       => /\ window.start <= Stamp(earliest)
          /\ Stamp(latest) <= window.end

\* The cold-start loop of a target is running.
InLoop == pc \in {"enforce", "invoke", "check"}

\* C29: the cold-start loop puts no bound on discarded attempts. A discard
\* leaves the counter and the record set as they were and goes back to the
\* enforcement; the counter advances only on a cold response; the loop hands
\* over to the reconciliation, and a result file is written, only with the
\* counter equal to repetitions. With a provider that gives a cold response
\* again and again the loop ends, at the reconciliation with the counter
\* equal to repetitions unless a failed request ended the process.
C29_LoopEndsOnlyWhenAllCold ==
    /\ [][(pc = "check" /\ result.response_body.json /\ NotCold(result))
            => /\ pc' = "enforce"
               /\ cold_start_counter' = cold_start_counter
               /\ benchmark_results' = benchmark_results]_vars
    /\ [][(InLoop /\ cold_start_counter' # cold_start_counter)
            => /\ pc = "check"
               /\ IsCold(result.response_body)
               /\ cold_start_counter' = cold_start_counter + 1]_vars
    /\ []((pc \in {"reconcile", "save", "done"} \/ result_file # Absent)
            => cold_start_counter = repetitions)
    /\ (InLoop ~> (\/ pc = "reconcile" /\ cold_start_counter = repetitions
                   \/ pc \in {"exited", "crashed"}))

\* C29 witness: the loop discarded a response with the counter short of
\* repetitions and is back at the enforcement with nothing changed, and
\* records are already held.
C29_Witness ==
    /\ pc = "enforce"
    /\ cold_start_counter > 0
    /\ cold_start_counter < repetitions
    /\ Keys(benchmark_results) # {}
    /\ result = NoResult

====
